---- MODULE Spec2Model ----
(***************************************************************************)
(* A model of cloudmon-metrics (stackmon/metrics-processor):               *)
(*   - the status-dashboard helpers of src/sd.rs (component cache, lookup),*)
(*   - the reporter control loop of src/bin/reporter.rs (metric_watcher    *)
(*     and main),                                                          *)
(*   - the flag engine and the health evaluator of src/common.rs,          *)
(*   - the configuration compiler AppState::process_config of src/types.rs,*)
(*   - the handler of GET /api/v1/health of src/api/v1.rs.                 *)
(*                                                                         *)
(* Six specifications share the module:                                    *)
(*   Spec        the reporter process (main + metric_watcher),             *)
(*   SpecSd      build_component_id_cache / find_component_id on inputs    *)
(*               drawn from bounded sets,                                  *)
(*   SpecLive    Spec with the fairness of main's return,                  *)
(*   SpecFlag    one call of get_metric_flag_state,                        *)
(*   SpecHealth  one request to handler_health and its call of             *)
(*               get_service_health,                                       *)
(*   SpecConfig  one call of process_config.                               *)
(* Each specification freezes the variables of the others.                 *)
(*                                                                         *)
(* Option<T> is modelled as a sequence of length 0 (None) or 1 (Some).     *)
(***************************************************************************)
EXTENDS Integers, Sequences, FiniteSets, TLC

VARIABLES
    \* ---- reporter (src/bin/reporter.rs) ----
    config,           \* the parsed Config the reporter runs with
    pc,               \* suspension point of metric_watcher
    exit_status,      \* Option: exit status of the reporter process
    components,       \* components[env][service]: the target Component
    attempt,          \* bootstrap loop variable
    component_cache,  \* Option<ComponentCache>
    env_i, svc_i,     \* position of the two nested for loops
    iteration,        \* number of the current pass of `loop`
    component_id,     \* Option<u32>: result of the lookup for the current pair
    pair,             \* history of the current (environment, service) pair
    iter_refreshes,   \* history: refresh GETs issued in this pass
    iter_misses,      \* history: pairs of this pass whose first lookup missed
    boot_fetches,     \* history: bootstrap GET /v2/components issued
    boot_failures,    \* history: bootstrap GETs that failed
    boot_sleeps,      \* history: bootstrap sleeps started
    slept,            \* history: seconds slept during bootstrap
    ever_queried,     \* history: a health query was issued
    ever_posted,      \* history: an incident POST was issued
    first_posted,     \* history: Option, the first incident posted
    \* ---- sd.rs on drawn inputs ----
    sd_cache,         \* the ComponentCache collected so far
    sd_count,         \* number of components collected into it
    sd_last,          \* Option: the component collected last
    sd_target,        \* Option<Component>: the target given to find_component_id
    sd_result,        \* Option<Option<u32>>: what find_component_id returned
    sd_again,         \* Option<Option<u32>>: what it returned on a rebuilt cache
    sd_pc,
    \* ---- get_metric_flag_state on drawn inputs ----
    flag_value,       \* Option<f32>
    flag_metric,      \* FlagMetric
    flag_result,      \* Option<bool>: what the call returned
    \* ---- get_service_health (src/common.rs) ----
    h_state,          \* AppState: flag_metrics and health_metrics
    h_query,          \* the service and the environment asked for
    h_pc,             \* position in get_service_health
    h_requests,       \* history: requests sent to Graphite
    h_series,         \* series of the Graphite response consumed so far
    h_target,         \* Option: target of the series being consumed
    h_points,         \* datapoints of that series consumed so far
    h_samples,        \* history: the last non-null sample per timestamp and target
    metrics_map,      \* BTreeMap<u32, HashMap<String, bool>>
    result,           \* ServiceHealthData: Vec<(u32, u8)>
    h_first_ts,       \* history: Option, the timestamp of the first sample stored
    h_ret,            \* Option<Result<ServiceHealthData, CloudMonError>>: the value returned
    h_resp,           \* history: Option, the answer of Graphite to GET /render
    h_http,           \* Option: the response of handler_health
    \* ---- AppState::process_config (src/types.rs) ----
    c_config,         \* the Config that is compiled: flag_metrics, health_metrics
    c_pc,             \* position in process_config
    c_i,              \* index of the definition the current loop has reached
    flag_metrics,     \* AppState.flag_metrics: metric id -> environment -> FlagMetric
    services,         \* AppState.services
    health_metrics,   \* AppState.health_metrics: key -> ServiceHealthDef
    c_order           \* history: the orders in which `replacements` were iterated

rvars == <<config, pc, exit_status, components, attempt, component_cache, env_i, svc_i,
           iteration, component_id, pair, iter_refreshes, iter_misses,
           boot_fetches, boot_failures, boot_sleeps, slept, ever_queried, ever_posted,
           first_posted>>
svars == <<sd_cache, sd_count, sd_last, sd_target, sd_result, sd_again, sd_pc>>
fvars == <<flag_value, flag_metric, flag_result>>
hvars == <<h_state, h_query, h_pc, h_requests, h_series, h_target, h_points, h_samples, h_first_ts,
           metrics_map, result, h_ret, h_resp, h_http>>
cvars == <<c_config, c_pc, c_i, flag_metrics, services, health_metrics, c_order>>
vars == <<rvars, svars, fvars, hvars, cvars>>

None == << >>
Some(x) == <<x>>

(***************************************************************************)
(* Bounds of the model.                                                    *)
(***************************************************************************)
MaxSvcs == 2          \* health definitions in the reporter's config
MaxIter == 2          \* passes of the polling loop that are explored
MaxComponents == 2    \* components of the dashboard answer collected in SpecSd
MaxSeries == 2        \* series of a Graphite response (SpecHealth)
MaxPoints == 2        \* datapoints of one series (SpecHealth)

(***************************************************************************)
(* src/sd.rs                                                               *)
(***************************************************************************)
\* ComponentAttribute {name, value}; names and values are numbered so that the
\* derived Ord (name first, then value) is the order of the numbers.
Attr(n, v) == [name |-> n, value |-> v]
ComponentAttribute == {Attr(1, 1), Attr(1, 2), Attr(2, 1)}

\* Vec<ComponentAttribute>: no, one or two attributes, in any order, repeated or not
AttrSeqs == {<< >>} \cup {<<a>> : a \in ComponentAttribute}
            \cup {<<a, b>> : a, b \in ComponentAttribute}

ComponentNames == {"c1", "c2"}
ComponentIds == {1, 2}

\* #[derive(Ord)] on ComponentAttribute: lexicographic on (name, value)
AttrLess(a, b) == a.name < b.name \/ (a.name = b.name /\ a.value < b.value)

\* Vec::sort on the attributes (insertion into a sorted prefix)
RECURSIVE InsertSorted(_, _)
InsertSorted(a, s) ==
    IF s = << >> THEN <<a>>
    ELSE IF AttrLess(Head(s), a) THEN <<Head(s)>> \o InsertSorted(a, Tail(s))
    ELSE <<a>> \o s

RECURSIVE SortAttrs(_)
SortAttrs(s) == IF s = << >> THEN << >> ELSE InsertSorted(Head(s), SortAttrs(Tail(s)))

\* The key under which build_component_id_cache stores a component
CacheKey(c) == <<c.name, SortAttrs(c.attributes)>>

\* HashMap::insert: a later entry with an equal key replaces the earlier one.
\* The cache is the set of its entries [key, id], at most one per key.
CacheInsert(cache, key, id) ==
    {e \in cache : e.key # key} \cup {[key |-> key, id |-> id]}

RECURSIVE CollectCache(_, _)
CollectCache(cs, cache) ==
    IF cs = << >> THEN cache
    ELSE CollectCache(Tail(cs), CacheInsert(cache, CacheKey(Head(cs)), Head(cs).id))

build_component_id_cache(cs) == CollectCache(cs, {})

\* (variant: the attributes compared position by position)
AttrsByPosition(cache_attrs, target) ==
    /\ Len(cache_attrs) >= Len(target.attributes)
    /\ \A i \in 1..Len(target.attributes) : cache_attrs[i] = target.attributes[i]

\* The closure of find_component_id's `find`: every target attribute occurs in
\* the entry's attributes with the same name and value
AttrsContained(cache_attrs, target) ==
    \A i \in 1..Len(target.attributes) :
        \E j \in 1..Len(cache_attrs) :
            /\ cache_attrs[j].name = target.attributes[i].name
            /\ cache_attrs[j].value = target.attributes[i].value

\* filter on the name, then find on the attributes
CacheMatches(cache, target) ==
    {e \in cache : e.key[1] = target.name /\ AttrsContained(e.key[2], target)}

\* find_component_id: the set of values the call may return.  The HashMap is
\* iterated in an unspecified order, so `find` may stop at any matching entry.
find_component_id(cache, target) ==
    IF CacheMatches(cache, target) = {} THEN {None}
    ELSE {Some(e.id) : e \in CacheMatches(cache, target)}

\* chrono: the civil date of a day number counted from 1970-01-01 (proleptic
\* Gregorian calendar; \div rounds towards minus infinity)
CivilFromDays(days) ==
    LET z == days + 719468
        era == z \div 146097
        doe == z - era * 146097
        yoe == (doe - (doe \div 1460) + (doe \div 36524) - (doe \div 146096)) \div 365
        doy == doe - (365 * yoe + (yoe \div 4) - (yoe \div 100))
        mp == (5 * doy + 2) \div 153
        m == IF mp < 10 THEN mp + 3 ELSE mp - 9
    IN  [year |-> yoe + era * 400 + (IF m <= 2 THEN 1 ELSE 0),
         month |-> m,
         day |-> doy - ((153 * mp + 2) \div 5) + 1]

\* DateTime::from_timestamp(secs, 0).to_rfc3339(): "YYYY-MM-DDTHH:MM:SS+00:00",
\* kept as its fields
to_rfc3339(secs) ==
    LET date == CivilFromDays(secs \div 86400)
        sod == secs % 86400
    IN  [year |-> date.year, month |-> date.month, day |-> date.day,
         hour |-> sod \div 3600, minute |-> (sod % 3600) \div 60, second |-> sod % 60,
         offset |-> "+00:00"]

\* (variant: the start date is the metric's own second)
build_incident_data_same_second(id, impact, timestamp) ==
    [title |-> "System incident from monitoring system",
     impact |-> impact,
     components |-> <<id>>,
     start_date |-> to_rfc3339(timestamp),
     system |-> TRUE,
     type |-> "incident"]

\* build_incident_data: the body of POST /v2/events (the constant description
\* text is left out)
build_incident_data(id, impact, timestamp) ==
    [title |-> "System incident from monitoring system",
     impact |-> impact,
     components |-> <<id>>,
     start_date |-> to_rfc3339(timestamp - 1),
     system |-> TRUE,
     type |-> "incident"]

(***************************************************************************)
(* src/bin/reporter.rs: configuration and the answers of the environment   *)
(***************************************************************************)
\* EnvironmentDef.attributes: Option<HashMap<String, String>>, a set of
\* attributes with distinct names (None and the empty map build the same target)
EnvAttrChoices == { {}, {Attr(1, 1), Attr(2, 1)} }

\* Config.environments: one environment, or two of which the second has attributes
EnvironmentLists ==
    {<<[attributes |-> a]>> : a \in EnvAttrChoices}
    \cup {<<[attributes |-> {}], [attributes |-> {Attr(1, 1), Attr(2, 1)}]>>}

\* ServiceHealthDef.component_name: Option<String>; the dashboard also knows
\* components of another name
ComponentNameChoices == {None, Some("c1")}

SeqsUpTo(S, n) == UNION {[1..k -> S] : k \in 1..n}

Configs ==
    [environments : EnvironmentLists,
     health_metrics : SeqsUpTo([component_name : ComponentNameChoices], MaxSvcs),
     status_dashboard : BOOLEAN]

NumEnvs == Len(config.environments)
NumSvcs == Len(config.health_metrics)

\* The orders in which a HashMap of attributes may be iterated
Orderings(S) ==
    {q \in [1..Cardinality(S) -> S] : \A i, j \in 1..Cardinality(S) : q[i] = q[j] => i = j}

\* StatusDashboardComponent {id, name, attributes}
SdComponent(i, n, as) == [id |-> i, name |-> n, attributes |-> as]

\* Answers of GET /v2/components: fetch_components returns Err (transport error,
\* non-2xx status, undecodable body) or Ok(list)
DashboardLists ==
    { << >>,
      <<SdComponent(1, "c1", << >>)>>,
      <<SdComponent(1, "c1", <<Attr(2, 1), Attr(1, 1)>>), SdComponent(2, "c2", <<Attr(1, 1)>>)>>,
      <<SdComponent(1, "c1", <<Attr(1, 2)>>), SdComponent(2, "c1", <<Attr(1, 1), Attr(2, 1)>>)>> }
FetchResults == {[ok |-> FALSE, list |-> << >>]} \cup {[ok |-> TRUE, list |-> l] : l \in DashboardLists}

\* Answers of GET /api/v1/health: a transport error, a 4xx status, a body that
\* does not parse as ServiceHealthResponse, or a parsed response with its metrics
Point(ts, w) == [timestamp |-> ts, weight |-> w]
HealthMetrics ==
    { << >>,
      <<Point(10, 0)>>,
      <<Point(0, 1)>>,
      <<Point(10, 2), Point(20, 0)>>,
      <<Point(86400, 0), Point(1709251200, 2)>> }
HealthResults ==
    {[kind |-> k, metrics |-> << >>] : k \in {"transport", "client_error", "unparsable"}}
    \cup {[kind |-> "client_error", metrics |-> <<Point(0, 1)>>]}
    \cup {[kind |-> "ok", metrics |-> m] : m \in HealthMetrics}

\* (variant: only a transport error counts as a failed query)
HealthFailedTransportOnly(r) == r.kind = "transport"

\* The query failed: `send()` returned Err, the status is a client error, or
\* the body is no ServiceHealthResponse
HealthFailed(r) == r.kind \in {"transport", "client_error", "unparsable"}

(***************************************************************************)
(* src/bin/reporter.rs: metric_watcher and main                            *)
(***************************************************************************)
\* (variant: one attempt more)
max_attempts_plus_one == 3 + 1

\* `let max_attempts = 3;`
max_attempts == 3

\* seconds of the sleep between two bootstrap attempts
retry_delay_seconds == 60

\* (variant: the first point of the response)
FirstPoint(metrics) == IF metrics = << >> THEN None ELSE Some(metrics[1])

\* data.metrics.pop(): the last point of the response, None when it is empty
LastPoint(metrics) == IF metrics = << >> THEN None ELSE Some(metrics[Len(metrics)])

\* (variant: a miss is not followed by a refresh)
NeverRefresh(cid) == FALSE

\* `if component_id.is_none()`: a miss of the first lookup triggers the refresh
NeedsRefresh(cid) == cid = None

\* `if attempt < max_attempts`: a failed attempt that is not the last one sleeps
SleepsAfter(att) == att < max_attempts

\* (variant: an empty cache stands in for the missing one)
CacheDefaulted(cache) == TRUE

\* `match component_cache { Some(cache) => cache, None => return }`
CacheLoaded(cache) == cache # None

CacheOf(cache) == IF cache = None THEN {} ELSE cache[1]

\* The history kept for one (environment, service) pair of one pass
FreshPair(e, s) ==
    [env |-> e, svc |-> s, resp |-> None, lookups |-> 0, misses |-> 0,
     refreshes |-> 0, refresh_failed |-> FALSE, posts |-> 0, post_id |-> None,
     post_data |-> None, post_dup |-> FALSE, post_ok |-> None, fetched |-> None]
NoPair == FreshPair(0, 0)

\* The last pair of a pass
LastPair == env_i = NumEnvs /\ svc_i = NumSvcs

\* The end of the body of the inner for loop for the current pair
Finish(done) ==
    /\ pc' = "pair_done"
    /\ pair' = done
    /\ UNCHANGED <<env_i, svc_i, component_id, ever_queried>>

\* The entry of `loop`: the first pair's health query is sent
EnterLoop ==
    /\ pc' = "health"
    /\ env_i' = 1
    /\ svc_i' = 1
    /\ pair' = FreshPair(1, 1)
    /\ ever_queried' = TRUE
    /\ iter_refreshes' = 0
    /\ iter_misses' = 0

\* The incident built for the pair: the resolved id, the weight and the
\* timestamp of the last point
IncidentFor(p, cid) ==
    LET last == LastPoint(p.resp[1].metrics)[1]
    IN  build_incident_data(cid[1], last.weight, last.timestamp)

\* (variant: an incident equal to the first one posted is not posted again)
SendIncidentOnce(p, cid) ==
    IF first_posted = Some(IncidentFor(p, cid))
    THEN /\ pc' = "pair_done"
         /\ component_id' = cid
         /\ pair' = [p EXCEPT !.post_id = cid]
         /\ UNCHANGED <<env_i, svc_i, ever_queried, ever_posted, first_posted>>
    ELSE /\ pc' = "post"
         /\ component_id' = cid
         /\ pair' = [p EXCEPT !.posts = @ + 1, !.post_id = cid,
                               !.post_data = Some(IncidentFor(p, cid))]
         /\ ever_posted' = TRUE
         /\ first_posted' = IF first_posted = None THEN Some(IncidentFor(p, cid)) ELSE first_posted
         /\ UNCHANGED <<env_i, svc_i, ever_queried>>

\* build_incident_data + create_incident: the POST is sent
SendIncident(p, cid) ==
    /\ pc' = "post"
    /\ component_id' = cid
    /\ pair' = [p EXCEPT !.posts = @ + 1, !.post_id = cid,
                          !.post_data = Some(IncidentFor(p, cid)),
                          !.post_dup = first_posted = Some(IncidentFor(p, cid))]
    /\ ever_posted' = TRUE
    /\ first_posted' = IF first_posted = None THEN Some(IncidentFor(p, cid)) ELSE first_posted
    /\ UNCHANGED <<env_i, svc_i, ever_queried>>

ReporterInit ==
    /\ config \in Configs
    /\ pc = "start"
    /\ exit_status = None
    /\ components = << >>
    /\ attempt = 0
    /\ component_cache = None
    /\ env_i = 0
    /\ svc_i = 0
    /\ iteration = 0
    /\ component_id = None
    /\ pair = NoPair
    /\ iter_refreshes = 0
    /\ iter_misses = 0
    /\ boot_fetches = 0
    /\ boot_failures = 0
    /\ boot_sleeps = 0
    /\ slept = 0
    /\ ever_queried = FALSE
    /\ ever_posted = FALSE
    /\ first_posted = None

\* metric_watcher up to its first await: the target components are built, the
\* status_dashboard section is required, the first bootstrap GET is sent
Start ==
    /\ pc = "start"
    /\ \E ord \in [1..NumEnvs -> UNION {Orderings(a) : a \in EnvAttrChoices}] :
        /\ \A e \in 1..NumEnvs : ord[e] \in Orderings(config.environments[e].attributes)
        /\ components' =
             [e \in 1..NumEnvs |->
                [s \in {x \in 1..NumSvcs : config.health_metrics[x].component_name # None} |->
                    [name |-> config.health_metrics[s].component_name[1],
                     attributes |-> ord[e]]]]
    /\ IF config.status_dashboard
       THEN /\ attempt' = 1
            /\ boot_fetches' = 1
            /\ pc' = "boot_fetch"
            /\ UNCHANGED exit_status
       ELSE /\ pc' = "panicked"
            /\ exit_status' = Some(101)
            /\ UNCHANGED <<attempt, boot_fetches>>
    /\ UNCHANGED <<config, component_cache, env_i, svc_i, iteration, component_id, pair,
                   iter_refreshes, iter_misses, boot_failures, boot_sleeps, slept,
                   ever_queried, ever_posted, first_posted>>

\* The end of a failed pass of `for attempt in 1..=max_attempts`: the next
\* attempt's GET is sent, or, after the last attempt, the loop is left and
\* `match component_cache` decides between the polling loop and the return
BootLoopNext ==
    IF attempt < max_attempts
    THEN /\ attempt' = attempt + 1
         /\ boot_fetches' = boot_fetches + 1
         /\ pc' = "boot_fetch"
         /\ UNCHANGED <<exit_status, iteration, env_i, svc_i, pair, ever_queried,
                        iter_refreshes, iter_misses>>
    ELSE IF CacheLoaded(component_cache)
    THEN /\ iteration' = 1
         /\ EnterLoop
         /\ UNCHANGED <<exit_status, attempt, boot_fetches>>
    ELSE /\ pc' = "returned"
         /\ exit_status' = Some(0)
         /\ UNCHANGED <<attempt, boot_fetches, iteration, env_i, svc_i, pair, ever_queried,
                        iter_refreshes, iter_misses>>

\* The answer to a bootstrap GET /v2/components
BootFetchResp ==
    /\ pc = "boot_fetch"
    /\ \E r \in FetchResults :
        IF r.ok
        THEN /\ component_cache' = Some(build_component_id_cache(r.list))
             /\ iteration' = 1
             /\ EnterLoop
             /\ UNCHANGED <<exit_status, attempt, boot_fetches, boot_failures, boot_sleeps>>
        ELSE /\ boot_failures' = boot_failures + 1
             /\ UNCHANGED component_cache
             /\ IF SleepsAfter(attempt)
                THEN /\ pc' = "boot_sleep"
                     /\ boot_sleeps' = boot_sleeps + 1
                     /\ UNCHANGED <<exit_status, attempt, boot_fetches, iteration, env_i,
                                    svc_i, pair, ever_queried, iter_refreshes, iter_misses>>
                ELSE /\ BootLoopNext
                     /\ UNCHANGED boot_sleeps
    /\ UNCHANGED <<config, components, component_id, slept, ever_posted, first_posted>>

\* The 60 s bootstrap sleep is over
BootSleepDone ==
    /\ pc = "boot_sleep"
    /\ slept' = slept + retry_delay_seconds
    /\ BootLoopNext
    /\ UNCHANGED <<config, components, component_cache, component_id, boot_failures,
                   boot_sleeps, ever_posted, first_posted>>

\* The answer to GET /api/v1/health for the pair (env_i, svc_i), and the code
\* that follows it up to the next await
HealthResp ==
    /\ pc = "health"
    /\ \E r \in HealthResults :
        LET p0 == [pair EXCEPT !.resp = Some(r)]
            last == LastPoint(r.metrics)
        IN  IF HealthFailed(r) \/ last = None \/ ~(last[1].weight > 0)
            THEN \* logged, or nothing to report: next pair
                 /\ Finish(p0)
                 /\ UNCHANGED <<exit_status, iter_refreshes, iter_misses, ever_posted, first_posted>>
            ELSE IF svc_i \notin DOMAIN components[env_i]
            THEN \* components.get(&env.name).unwrap().get(component.0).unwrap()
                 /\ pc' = "panicked"
                 /\ exit_status' = Some(101)
                 /\ pair' = p0
                 /\ UNCHANGED <<env_i, svc_i, component_id, iter_refreshes, iter_misses,
                                ever_queried, ever_posted, first_posted>>
            ELSE \E cid \in find_component_id(CacheOf(component_cache), components[env_i][svc_i]) :
                 LET p1 == [p0 EXCEPT !.lookups = 1, !.misses = IF cid = None THEN 1 ELSE 0]
                 IN  /\ iter_misses' = iter_misses + p1.misses
                     /\ UNCHANGED exit_status
                     /\ IF NeedsRefresh(cid)
                        THEN /\ pc' = "refresh"
                             /\ component_id' = cid
                             /\ pair' = [p1 EXCEPT !.refreshes = @ + 1]
                             /\ iter_refreshes' = iter_refreshes + 1
                             /\ UNCHANGED <<env_i, svc_i, ever_queried, ever_posted, first_posted>>
                        ELSE IF cid # None
                        THEN /\ SendIncident(p1, cid)
                             /\ UNCHANGED iter_refreshes
                        ELSE /\ Finish(p1)
                             /\ UNCHANGED <<iter_refreshes, ever_posted, first_posted>>
    /\ UNCHANGED <<config, components, attempt, component_cache, iteration, boot_fetches,
                   boot_failures, boot_sleeps, slept>>

\* (variant: a miss after the refresh refreshes again)
RefreshRespAgain ==
    /\ pc = "refresh"
    /\ pair.refreshes < 3
    /\ \E r \in FetchResults :
        /\ r.ok
        /\ component_cache' = Some(build_component_id_cache(r.list))
        /\ \E cid \in find_component_id(CacheOf(component_cache'), components[env_i][svc_i]) :
            LET p1 == [pair EXCEPT !.lookups = @ + 1, !.fetched = Some(r.list),
                                   !.misses = @ + (IF cid = None THEN 1 ELSE 0)]
            IN  IF cid # None
                THEN SendIncident(p1, cid) /\ UNCHANGED iter_refreshes
                ELSE /\ pair' = [p1 EXCEPT !.refreshes = @ + 1]
                     /\ iter_refreshes' = iter_refreshes + 1
                     /\ UNCHANGED <<pc, component_id, env_i, svc_i, ever_queried,
                                    ever_posted, first_posted>>
    /\ UNCHANGED <<config, exit_status, components, attempt, iteration, iter_misses,
                   boot_fetches, boot_failures, boot_sleeps, slept>>

\* (variant: the fetched components are added to the cache that is held)
RefreshRespMerge ==
    /\ pc = "refresh"
    /\ \E r \in FetchResults :
        IF r.ok
        THEN /\ component_cache' = Some(CollectCache(r.list, CacheOf(component_cache)))
             /\ \E cid \in find_component_id(CacheOf(component_cache'), components[env_i][svc_i]) :
                 LET p1 == [pair EXCEPT !.lookups = @ + 1, !.fetched = Some(r.list),
                                        !.misses = @ + (IF cid = None THEN 1 ELSE 0)]
                 IN  IF cid # None
                     THEN SendIncident(p1, cid)
                     ELSE Finish(p1) /\ UNCHANGED <<ever_posted, first_posted>>
        ELSE /\ UNCHANGED component_cache
             /\ IF component_id # None
                THEN SendIncident([pair EXCEPT !.refresh_failed = TRUE], component_id)
                ELSE Finish([pair EXCEPT !.refresh_failed = TRUE]) /\ UNCHANGED <<ever_posted, first_posted>>
    /\ UNCHANGED <<config, exit_status, components, attempt, iteration, iter_refreshes,
                   iter_misses, boot_fetches, boot_failures, boot_sleeps, slept>>

\* The answer to the refresh GET /v2/components sent after a miss, the retried
\* lookup and the `match component_id` that follows
RefreshResp ==
    /\ pc = "refresh"
    /\ \E r \in FetchResults :
        IF r.ok
        THEN /\ component_cache' = Some(build_component_id_cache(r.list))
             /\ \E cid \in find_component_id(CacheOf(component_cache'), components[env_i][svc_i]) :
                 LET p1 == [pair EXCEPT !.lookups = @ + 1, !.fetched = Some(r.list),
                                        !.misses = @ + (IF cid = None THEN 1 ELSE 0)]
                 IN  IF cid # None
                     THEN SendIncident(p1, cid)
                     ELSE Finish(p1) /\ UNCHANGED <<ever_posted, first_posted>>
        ELSE /\ UNCHANGED component_cache
             /\ IF component_id # None
                THEN SendIncident([pair EXCEPT !.refresh_failed = TRUE], component_id)
                ELSE Finish([pair EXCEPT !.refresh_failed = TRUE]) /\ UNCHANGED <<ever_posted, first_posted>>
    /\ UNCHANGED <<config, exit_status, components, attempt, iteration, iter_refreshes,
                   iter_misses, boot_fetches, boot_failures, boot_sleeps, slept>>

\* (variant: a failed POST is sent again)
PostRespRetry ==
    /\ pc = "post"
    /\ \E ok \in BOOLEAN :
        IF ok \/ pair.posts >= 2
        THEN Finish([pair EXCEPT !.post_ok = Some(ok)])
        ELSE /\ pair' = [pair EXCEPT !.post_ok = Some(ok), !.posts = @ + 1]
             /\ UNCHANGED <<pc, env_i, svc_i, component_id, ever_queried>>
    /\ UNCHANGED <<config, exit_status, components, attempt, component_cache, iteration,
                   iter_refreshes, iter_misses, boot_fetches, boot_failures, boot_sleeps,
                   slept, ever_posted, first_posted>>

\* The answer to POST /v2/events: success or failure is logged, nothing else
PostResp ==
    /\ pc = "post"
    /\ \E ok \in BOOLEAN : Finish([pair EXCEPT !.post_ok = Some(ok)])
    /\ UNCHANGED <<config, exit_status, components, attempt, component_cache, iteration,
                   iter_refreshes, iter_misses, boot_fetches, boot_failures, boot_sleeps,
                   slept, ever_posted, first_posted>>

\* The for loops step to the next pair and its health query is sent, or, after
\* the last pair of the pass, the 60 s sleep starts
NextPair ==
    /\ pc = "pair_done"
    /\ component_id' = None
    /\ IF LastPair
       THEN /\ pc' = "poll_sleep"
            /\ pair' = NoPair
            /\ UNCHANGED <<env_i, svc_i, ever_queried>>
       ELSE /\ pc' = "health"
            /\ env_i' = IF svc_i < NumSvcs THEN env_i ELSE env_i + 1
            /\ svc_i' = IF svc_i < NumSvcs THEN svc_i + 1 ELSE 1
            /\ pair' = FreshPair(env_i', svc_i')
            /\ ever_queried' = TRUE
    /\ UNCHANGED <<config, exit_status, components, attempt, component_cache, iteration,
                   iter_refreshes, iter_misses, boot_fetches, boot_failures, boot_sleeps,
                   slept, ever_posted, first_posted>>

\* The 60 s sleep at the end of a pass is over: the next pass starts
PollSleepDone ==
    /\ pc = "poll_sleep"
    /\ iteration < MaxIter
    /\ iteration' = iteration + 1
    /\ EnterLoop
    /\ UNCHANGED <<config, exit_status, components, attempt, component_cache, component_id,
                   boot_fetches, boot_failures, boot_sleeps, slept, ever_posted, first_posted>>

\* The awaits of metric_watcher: a bootstrap fetch, the bootstrap sleep, a health
\* query, a refresh fetch, an incident POST, the sleep that ends a pass
SuspensionPoints == {"boot_fetch", "boot_sleep", "health", "refresh", "post", "poll_sleep"}

\* (variant: a signal is honoured only while metric_watcher sleeps)
SignalWhileSleeping ==
    /\ pc \in {"boot_sleep", "poll_sleep"}
    /\ pc' = "abandoned"
    /\ UNCHANGED <<config, exit_status, components, attempt, component_cache, env_i, svc_i,
                   iteration, component_id, pair, iter_refreshes, iter_misses, boot_fetches,
                   boot_failures, boot_sleeps, slept, ever_queried, ever_posted, first_posted>>

\* main: SIGINT or SIGTERM completes the select!; the metric_watcher future is
\* dropped at the await it is suspended in
Signal ==
    /\ pc \in SuspensionPoints
    /\ pc' = "abandoned"
    /\ UNCHANGED <<config, exit_status, components, attempt, component_cache, env_i, svc_i,
                   iteration, component_id, pair, iter_refreshes, iter_misses, boot_fetches,
                   boot_failures, boot_sleeps, slept, ever_queried, ever_posted, first_posted>>

\* main after the select!: "stopped" is logged and main returns
MainReturn ==
    /\ pc = "abandoned"
    /\ exit_status = None
    /\ exit_status' = Some(0)
    /\ UNCHANGED <<config, pc, components, attempt, component_cache, env_i, svc_i,
                   iteration, component_id, pair, iter_refreshes, iter_misses, boot_fetches,
                   boot_failures, boot_sleeps, slept, ever_queried, ever_posted, first_posted>>

(***************************************************************************)
(* src/sd.rs on drawn inputs: a dashboard answer is collected into a cache *)
(* one component at a time, then a target is looked up                     *)
(***************************************************************************)
\* A list of components from which build_component_id_cache builds the cache:
\* one component per entry, in some order
RECURSIVE CacheComponents(_)
CacheComponents(cache) ==
    IF cache = {} THEN << >>
    ELSE LET e == CHOOSE x \in cache : TRUE
         IN  <<SdComponent(e.id, e.key[1], e.key[2])>> \o CacheComponents(cache \ {e})

SdComponents ==
    {SdComponent(i, n, as) : i \in ComponentIds, n \in ComponentNames, as \in AttrSeqs}
SdTargets == {[name |-> n, attributes |-> as] : n \in ComponentNames, as \in AttrSeqs}

SdInit ==
    /\ sd_cache = {}
    /\ sd_count = 0
    /\ sd_last = None
    /\ sd_target = None
    /\ sd_result = None
    /\ sd_again = None
    /\ sd_pc = "build"

\* One pass of the iterator chain of build_component_id_cache
SdCollect ==
    /\ sd_pc = "build"
    /\ sd_count < MaxComponents
    /\ \E c \in SdComponents :
        /\ sd_cache' = CollectCache(<<c>>, sd_cache)
        /\ sd_last' = Some(c)
    /\ sd_count' = sd_count + 1
    /\ UNCHANGED <<sd_target, sd_result, sd_again, sd_pc>>

\* find_component_id on the cache built
SdFind ==
    /\ sd_pc = "build"
    /\ \E t \in SdTargets :
        /\ sd_target' = Some(t)
        /\ \E r \in find_component_id(sd_cache, t) : sd_result' = Some(r)
    /\ sd_pc' = "found"
    /\ UNCHANGED <<sd_cache, sd_count, sd_last, sd_again>>

\* The same target looked up in a cache of the same contents that was built
\* anew (by a refresh that fetched the same components, or by another reporter
\* process): a new HashMap with a RandomState of its own, whose iteration order
\* is independent of the first one's
SdFindAgain ==
    /\ sd_pc = "found"
    /\ \E r \in find_component_id(build_component_id_cache(CacheComponents(sd_cache)),
                                   sd_target[1]) :
          sd_again' = Some(r)
    /\ sd_pc' = "found_again"
    /\ UNCHANGED <<sd_cache, sd_count, sd_last, sd_target, sd_result>>

SdIdle ==
    /\ sd_cache = {}
    /\ sd_count = 0
    /\ sd_last = None
    /\ sd_target = None
    /\ sd_result = None
    /\ sd_again = None
    /\ sd_pc = "idle"

ReporterIdle ==
    /\ config = [environments |-> <<[attributes |-> {}]>>,
                 health_metrics |-> <<[component_name |-> None]>>,
                 status_dashboard |-> FALSE]
    /\ pc = "idle"
    /\ exit_status = None
    /\ components = << >>
    /\ attempt = 0
    /\ component_cache = None
    /\ env_i = 0
    /\ svc_i = 0
    /\ iteration = 0
    /\ component_id = None
    /\ pair = NoPair
    /\ iter_refreshes = 0
    /\ iter_misses = 0
    /\ boot_fetches = 0
    /\ boot_failures = 0
    /\ boot_sleeps = 0
    /\ slept = 0
    /\ ever_queried = FALSE
    /\ ever_posted = FALSE
    /\ first_posted = None

(***************************************************************************)
(* src/common.rs: get_metric_flag_state                                    *)
(***************************************************************************)
CmpType == {"Lt", "Gt", "Eq"}

\* f32 samples and thresholds are modelled by small integers
FlagMetric(o, t) == [op |-> o, threshold |-> t]

\* (variant: comparisons that include the threshold)
flag_state_inclusive(value, metric) ==
    IF value = None THEN FALSE
    ELSE CASE metric.op = "Lt" -> value[1] <= metric.threshold
           [] metric.op = "Gt" -> value[1] >= metric.threshold
           [] metric.op = "Eq" -> value[1] = metric.threshold

get_metric_flag_state(value, metric) ==
    IF value = None THEN FALSE
    ELSE CASE metric.op = "Lt" -> value[1] < metric.threshold
           [] metric.op = "Gt" -> value[1] > metric.threshold
           [] metric.op = "Eq" -> value[1] = metric.threshold

FlagValues == {None} \cup {Some(v) : v \in -2..2}
FlagThresholds == -1..1

FlagInit ==
    /\ flag_value \in FlagValues
    /\ flag_metric \in {FlagMetric(o, t) : o \in CmpType, t \in FlagThresholds}
    /\ flag_result = None

FlagIdle ==
    /\ flag_value = None
    /\ flag_metric = FlagMetric("Lt", 0)
    /\ flag_result = None

\* One call of get_metric_flag_state
FlagCall ==
    /\ flag_result = None
    /\ flag_result' = Some(get_metric_flag_state(flag_value, flag_metric))
    /\ UNCHANGED <<flag_value, flag_metric>>

(***************************************************************************)
(* src/common.rs: get_service_health                                       *)
(***************************************************************************)
\* Boolean expressions as evalexpr parses them: <<"var", id>>, <<"not", e>>,
\* <<"and", l, r>>, <<"or", l, r>>
Var(id) == <<"var", id>>
Not(e) == <<"not", e>>
And(l, r) == <<"and", l, r>>
Or(l, r) == <<"or", l, r>>

\* eval_boolean_with_context: Some(bool), or None for an evaluation error: an
\* identifier that the context does not bind.  The operands of an operator are
\* evaluated before the operator is applied.
RECURSIVE eval_boolean_with_context(_, _)
eval_boolean_with_context(e, context) ==
    CASE e[1] = "var" -> IF e[2] \in DOMAIN context THEN Some(context[e[2]]) ELSE None
      [] e[1] = "not" ->
            LET a == eval_boolean_with_context(e[2], context)
            IN  IF a = None THEN None ELSE Some(~a[1])
      [] e[1] = "and" ->
            LET a == eval_boolean_with_context(e[2], context)
                b == eval_boolean_with_context(e[3], context)
            IN  IF a = None \/ b = None THEN None ELSE Some(a[1] /\ b[1])
      [] e[1] = "or" ->
            LET a == eval_boolean_with_context(e[2], context)
                b == eval_boolean_with_context(e[3], context)
            IN  IF a = None \/ b = None THEN None ELSE Some(a[1] \/ b[1])

\* metric.replace("-", "_") on the metric identifiers of the model
Underscored(id) == IF id = "s.b-c" THEN "s.b_c" ELSE id

\* `expr.weight as u8`: the i32 weight truncated to its low 8 bits
AsU8(w) == w % 256

\* The loop over hm_config.metrics that builds the context: a later metric with
\* the same rewritten name replaces the earlier binding
RECURSIVE BuildContext(_, _, _)
BuildContext(metrics, ts_val, context) ==
    IF metrics = << >> THEN context
    ELSE LET metric == Head(metrics)
             xval == IF metric \in DOMAIN ts_val THEN ts_val[metric] ELSE FALSE
             name == Underscored(metric)
         IN  BuildContext(Tail(metrics), ts_val,
                 [n \in DOMAIN context \cup {name} |-> IF n = name THEN xval ELSE context[n]])

\* (variant: an expression that fails to evaluate counts as false)
EvalExpressionsLenient(exprs, context, expression_res) ==
    LET RECURSIVE go(_, _)
        go(es, res) ==
            IF es = << >> THEN Some(res)
            ELSE LET m == eval_boolean_with_context(Head(es).expression, context)
                 IN  IF AsU8(Head(es).weight) > res /\ m = Some(TRUE)
                     THEN go(Tail(es), AsU8(Head(es).weight))
                     ELSE go(Tail(es), res)
    IN  go(exprs, expression_res)

\* (variant: every expression is evaluated, whatever its weight)
EvalExpressionsNoSkip(exprs, context, expression_res) ==
    LET RECURSIVE go(_, _)
        go(es, res) ==
            IF es = << >> THEN Some(res)
            ELSE LET m == eval_boolean_with_context(Head(es).expression, context)
                 IN  IF m = None THEN None
                     ELSE IF m[1] /\ AsU8(Head(es).weight) > res
                     THEN go(Tail(es), AsU8(Head(es).weight))
                     ELSE go(Tail(es), res)
    IN  go(exprs, expression_res)

\* The loop over hm_config.expressions: Some(expression_res), or None when an
\* evaluated expression raises an error
RECURSIVE EvalExpressions(_, _, _)
EvalExpressions(exprs, context, expression_res) ==
    IF exprs = << >> THEN Some(expression_res)
    ELSE LET expr == Head(exprs)
         IN  IF AsU8(expr.weight) <= expression_res
             THEN EvalExpressions(Tail(exprs), context, expression_res)
             ELSE LET m == eval_boolean_with_context(expr.expression, context)
                  IN  IF m = None THEN None
                      ELSE IF m[1]
                      THEN EvalExpressions(Tail(exprs), context, AsU8(expr.weight))
                      ELSE EvalExpressions(Tail(exprs), context, expression_res)

EmptyContext == [n \in {} |-> FALSE]

\* The configurations the evaluator is run with.  Flag metrics: "s.a" and
\* "s.b-c" are bound for environment "prod" only, "t.x" for "prod" and "dev".
\* Service "s" lists "s.a" and "s.b-c"; service "t" lists "t.x" and "t.u", of
\* which "t.u" is no flag metric (process_config does not require that a listed
\* metric is one).  No service "u" is defined.
XA == Var("s.a")
XB == Var("s.b_c")
Expr(e, w) == [expression |-> e, weight |-> w]
ExpressionLists ==
    { <<Expr(Or(XA, XB), 1), Expr(And(XA, XB), 2)>>,
      <<Expr(XA, 2), Expr(XB, 1)>>,
      <<Expr(XA, 1), Expr(Not(XB), 1)>>,
      <<Expr(XA, 256), Expr(XB, 1)>>,
      <<Expr(Not(XA), -1)>>,
      <<Expr(XA, 3), Expr(Var("s.missing"), 2)>> }

ServiceMetrics == <<"s.a", "s.b-c">>
OtherServiceMetrics == <<"t.x", "t.u">>

AppState(o, x) ==
    [flag_metrics |->
        [m \in {"s.a", "s.b-c", "t.x"} |->
            IF m = "t.x" THEN [e \in {"prod", "dev"} |-> FlagMetric("Gt", 0)]
            ELSE [e \in {"prod"} |-> IF m = "s.a" THEN FlagMetric(o, 1)
                                     ELSE FlagMetric("Gt", 1)]],
     health_metrics |->
        [s \in {"s", "t"} |->
            IF s = "s" THEN [category |-> "compute", metrics |-> ServiceMetrics,
                             expressions |-> x]
            ELSE [category |-> "storage", metrics |-> OtherServiceMetrics,
                  expressions |-> <<Expr(Var("t.x"), 1)>>]]]

HealthStates == {AppState(o, x) : o \in {"Lt", "Gt"}, x \in ExpressionLists}

\* The query of a request: service, environment and max_data_points as they
\* stand in the query string (from and to are passed through to Graphite)
HealthQueries ==
    [service : {"s", "t", "u"}, environment : {"prod", "dev"}, max_data_points : {"100", "abc"}]

\* Query<HealthQuery>: max_data_points must deserialize as a u32
Deserializes(query) == query.max_data_points = "100"

\* What Graphite may answer: targets of the series, sample values, timestamps
Targets == {"s.a", "s.b-c", "t.x", "zzz"}
SampleValues == {None, Some(0), Some(2)}
Timestamps == {1, 2}

NoSamples == [ts \in Timestamps |-> [m \in Targets \cup {"t.u"} |-> None]]
EmptyMap == [ts \in {} |-> EmptyContext]

\* The state and the query of a call: every configuration of service "s", one
\* configuration for the queries of the services "t" and "u"
HealthInit ==
    /\ h_query \in HealthQueries
    /\ IF h_query.service = "s" THEN h_state \in HealthStates
       ELSE h_state = AppState("Lt", <<Expr(XA, 2), Expr(XB, 1)>>)
    /\ h_pc = "start"
    /\ h_requests = 0
    /\ h_series = 0
    /\ h_target = None
    /\ h_points = 0
    /\ h_samples = NoSamples
    /\ h_first_ts = None
    /\ metrics_map = EmptyMap
    /\ result = << >>
    /\ h_ret = None
    /\ h_resp = None
    /\ h_http = None

HealthIdle ==
    /\ h_state = [flag_metrics |-> EmptyMap, health_metrics |-> EmptyMap]
    /\ h_query = [service |-> "s", environment |-> "prod", max_data_points |-> "100"]
    /\ h_pc = "idle"
    /\ h_requests = 0
    /\ h_series = 0
    /\ h_target = None
    /\ h_points = 0
    /\ h_samples = NoSamples
    /\ h_first_ts = None
    /\ metrics_map = EmptyMap
    /\ result = << >>
    /\ h_ret = None
    /\ h_resp = None
    /\ h_http = None

HmConfig == h_state.health_metrics[h_query.service]

\* Result<ServiceHealthData, CloudMonError>
Ok(data) == [tag |-> "Ok", data |-> data]
Err(e) == [tag |-> "Err", error |-> e]

\* (variant: an unknown service is reported as an unsupported environment)
service_check_as_env(state, service) ==
    IF service \notin DOMAIN state.health_metrics THEN Some(Err("EnvNotSupported")) ELSE None

\* `if !state.health_metrics.contains_key(service)`
service_check(state, service) ==
    IF service \notin DOMAIN state.health_metrics THEN Some(Err("ServiceNotSupported")) ELSE None

\* The loop that builds graphite_targets: a listed metric that is a flag metric
\* must be bound for the environment; a listed metric that is no flag metric is
\* passed over by the `if let`
targets_check(state, metric_names, environment) ==
    IF \E i \in 1..Len(metric_names) :
          /\ metric_names[i] \in DOMAIN state.flag_metrics
          /\ environment \notin DOMAIN state.flag_metrics[metric_names[i]]
    THEN Some(Err("EnvNotSupported"))
    ELSE None

\* get_service_health is called (by handler_health, or by another caller with a
\* query of its own) and runs up to the await of get_graphite_data: the two
\* checks, then the request to Graphite is sent
HStart ==
    /\ h_pc = "start"
    /\ h_http = None
    /\ Deserializes(h_query)
    /\ IF service_check(h_state, h_query.service) # None
       THEN /\ h_ret' = service_check(h_state, h_query.service)
            /\ h_pc' = "done"
            /\ UNCHANGED h_requests
       ELSE IF targets_check(h_state, HmConfig.metrics, h_query.environment) # None
       THEN /\ h_ret' = targets_check(h_state, HmConfig.metrics, h_query.environment)
            /\ h_pc' = "done"
            /\ UNCHANGED h_requests
       ELSE /\ h_pc' = "graphite"
            /\ h_requests' = h_requests + 1
            /\ UNCHANGED h_ret
    /\ UNCHANGED <<h_state, h_query, h_resp, h_http, h_series, h_target, h_points, h_samples, h_first_ts, metrics_map,
                   result>>

\* What may come back for GET {url}/render: no response at all (a transport
\* error or the client's timeout), or a response with a status and a body that
\* is, or is not, a JSON array of series
GraphiteResponses ==
    {[kind |-> "transport", status |-> 0, decodable |-> FALSE]}
    \cup {[kind |-> "http", status |-> s, decodable |-> d] : s \in {200, 404, 500}, d \in BOOLEAN}

\* StatusCode::is_client_error
is_client_error(status) == status \in 400..499

\* (variant: every response that is no client error is taken as a list of series)
get_graphite_data_any_body(rsp) ==
    IF rsp.kind = "transport" THEN "GraphiteError"
    ELSE IF is_client_error(rsp.status) THEN "GraphiteError"
    ELSE "Ok"

\* The `match res` of get_graphite_data: Ok(dt) or Err(GraphiteError)
get_graphite_data(rsp) ==
    IF rsp.kind = "transport" THEN "GraphiteError"
    ELSE IF is_client_error(rsp.status) THEN "GraphiteError"
    ELSE IF rsp.decodable THEN "Ok"
    ELSE "GraphiteError"

\* get_graphite_data returns: Err(GraphiteError) is propagated by `?`, Ok(raw_data)
\* starts the loop over the series
HGraphiteResp ==
    /\ h_pc = "graphite"
    /\ \E rsp \in GraphiteResponses :
        /\ h_resp' = Some(rsp)
        /\ IF get_graphite_data(rsp) = "Ok" THEN h_pc' = "collect" /\ UNCHANGED h_ret
           ELSE h_pc' = "done" /\ h_ret' = Some(Err(get_graphite_data(rsp)))
    /\ UNCHANGED <<h_state, h_query, h_http, h_requests, h_series, h_target, h_points, h_samples,
                   h_first_ts, metrics_map, result>>

\* The next series of raw_data: a target that flag_metrics does not know is
\* logged and skipped; for a known one `metric_cfg.get(environment).unwrap()`
\* panics when the metric is not bound for the environment
HSeries ==
    /\ h_pc = "collect"
    /\ h_target = None
    /\ h_series < MaxSeries
    /\ \E t \in Targets :
        IF t \notin DOMAIN h_state.flag_metrics
        THEN UNCHANGED <<h_target, h_pc>>
        ELSE IF h_query.environment \notin DOMAIN h_state.flag_metrics[t]
        THEN h_pc' = "panicked" /\ h_target' = Some(t)
        ELSE h_target' = Some(t) /\ UNCHANGED h_pc
    /\ h_series' = h_series + 1
    /\ h_points' = 0
    /\ UNCHANGED <<h_state, h_query, h_resp, h_http, h_requests, h_samples, h_first_ts, metrics_map, result, h_ret>>

\* The next datapoint (val, ts) of the series: a non-null value stores its flag
HDatapoint ==
    /\ h_pc = "collect"
    /\ h_target # None
    /\ h_points < MaxPoints
    /\ \E val \in SampleValues, ts \in Timestamps :
        LET target == h_target[1]
            metric == h_state.flag_metrics[target][h_query.environment]
            old == IF ts \in DOMAIN metrics_map THEN metrics_map[ts] ELSE EmptyContext
            new == [m \in DOMAIN old \cup {target} |->
                       IF m = target THEN get_metric_flag_state(val, metric) ELSE old[m]]
        IN  IF val # None
            THEN /\ metrics_map' = [t \in DOMAIN metrics_map \cup {ts} |->
                                       IF t = ts THEN new ELSE metrics_map[t]]
                 /\ h_samples' = [h_samples EXCEPT ![ts][target] = val]
                 /\ h_first_ts' = IF h_first_ts = None THEN Some(ts) ELSE h_first_ts
            ELSE UNCHANGED <<metrics_map, h_samples, h_first_ts>>
    /\ h_points' = h_points + 1
    /\ UNCHANGED <<h_state, h_query, h_resp, h_http, h_pc, h_requests, h_series, h_target, result, h_ret>>

\* The datapoints of the series are exhausted
HEndSeries ==
    /\ h_pc = "collect"
    /\ h_target # None
    /\ h_target' = None
    /\ UNCHANGED <<h_state, h_query, h_resp, h_http, h_pc, h_requests, h_series, h_points, h_samples, h_first_ts,
                   metrics_map, result, h_ret>>

\* raw_data is exhausted
HEndData ==
    /\ h_pc = "collect"
    /\ h_target = None
    /\ h_pc' = "evaluate"
    /\ UNCHANGED <<h_state, h_query, h_resp, h_http, h_requests, h_series, h_target, h_points, h_samples, h_first_ts,
                   metrics_map, result, h_ret>>

\* The timestamps of metrics_map that the loop has not visited yet
Pending ==
    {ts \in DOMAIN metrics_map : \A i \in 1..Len(result) : result[i][1] # ts}

\* (variant: the map iterated from its largest key)
last_key(keys) == CHOOSE t \in keys : \A u \in keys : u <= t

\* BTreeMap::iter yields the keys in ascending order: the next one is the
\* smallest key not visited yet
first_key(keys) == CHOOSE t \in keys : \A u \in keys : t <= u

\* One pass of the loop over metrics_map, in ascending order of the timestamp,
\* or its end
HEvaluate ==
    /\ h_pc = "evaluate"
    /\ IF Pending = {}
       THEN /\ h_pc' = "done"
            /\ h_ret' = Some(Ok(result))
            /\ UNCHANGED result
       ELSE LET ts == first_key(Pending)
                context == BuildContext(HmConfig.metrics, metrics_map[ts], EmptyContext)
                res == EvalExpressions(HmConfig.expressions, context, 0)
            IN  IF res = None
                THEN /\ h_pc' = "done"
                     /\ h_ret' = Some(Err("ExpressionError"))
                     /\ UNCHANGED result
                ELSE /\ result' = Append(result, <<ts, res[1]>>)
                     /\ UNCHANGED <<h_pc, h_ret>>
    /\ UNCHANGED <<h_state, h_query, h_resp, h_http, h_requests, h_series, h_target, h_points, h_samples, h_first_ts,
                   metrics_map>>

(***************************************************************************)
(* src/api/v1.rs: handler_health                                           *)
(***************************************************************************)
Response(status, body) == [status |-> status, body |-> body]

\* impl fmt::Display for CloudMonError
Display(error) ==
    CASE error = "ServiceNotSupported" -> "Requested service not supported"
      [] error = "EnvNotSupported" -> "Environment for service not supported"
      [] error = "ExpressionError" -> "Internal Expression evaluation error"
      [] error = "GraphiteError" -> "Graphite error"

\* The `match` on the result of get_service_health
handler_response(ret, query, hm_config) ==
    IF ret.tag = "Ok"
    THEN Response(200, [name |-> query.service,
                        service_category |-> hm_config.category,
                        environment |-> query.environment,
                        metrics |-> ret.data])
    ELSE IF ret.error \in {"EnvNotSupported", "ServiceNotSupported"}
    THEN Response(409, [message |-> Display(ret.error)])
    ELSE Response(500, [message |-> Display(ret.error)])

\* The Query extractor rejects a query string that does not deserialize as
\* HealthQuery: the handler is not run and the rejection answers 400
HandlerReject ==
    /\ h_pc = "start"
    /\ h_http = None
    /\ ~Deserializes(h_query)
    /\ h_http' = Some(Response(400, [message |-> "Failed to deserialize query string"]))
    /\ UNCHANGED <<h_state, h_query, h_resp, h_pc, h_requests, h_series, h_target, h_points,
                   h_samples, h_first_ts, metrics_map, result, h_ret>>

\* `match state.health_metrics.get(&query.service)`, arm `_`: the service is not
\* known and get_service_health is not called
HandlerUnknown ==
    /\ h_pc = "start"
    /\ h_http = None
    /\ Deserializes(h_query)
    /\ h_query.service \notin DOMAIN h_state.health_metrics
    /\ h_http' = Some(Response(409, [message |-> "Service not supported"]))
    /\ UNCHANGED <<h_state, h_query, h_resp, h_pc, h_requests, h_series, h_target, h_points,
                   h_samples, h_first_ts, metrics_map, result, h_ret>>

\* get_service_health has returned to the handler: the result is turned into
\* the response
HandlerRespond ==
    /\ h_ret # None
    /\ h_http = None
    /\ h_query.service \in DOMAIN h_state.health_metrics
    /\ h_http' = Some(handler_response(h_ret[1], h_query, HmConfig))
    /\ UNCHANGED <<h_state, h_query, h_resp, h_pc, h_requests, h_series, h_target, h_points,
                   h_samples, h_first_ts, metrics_map, result, h_ret>>

(***************************************************************************)
(* src/types.rs: AppState::process_config                                  *)
(***************************************************************************)
\* A String is modelled as the sequence of its pieces: a piece is one character
\* ("$", ".", "-", "_", "|") or a run of characters that no operation splits
\* ("service", "count", "sum(")

\* The end of the longest run of pieces other than "." that starts at i
\* (`[^\.]+` is greedy)
RECURSIVE RunEnd(_, _)
RunEnd(str, i) ==
    IF i < Len(str) /\ str[i + 1] # "." THEN RunEnd(str, i + 1) ELSE i

\* Template::new(query).with_regex(r"(?mi)\$([^\.]+)").render(&vars): every
\* match of the regex, from left to right, is replaced by the value bound to
\* its capture; a capture without a binding makes render return Err (None)
RECURSIVE render(_, _)
render(str, values) ==
    IF str = << >> THEN Some(<< >>)
    ELSE IF Head(str) = "$" /\ Len(str) >= 2 /\ str[2] # "."
    THEN LET j == RunEnd(str, 2)
             key == SubSeq(str, 2, j)
             rest == render(SubSeq(str, j + 1, Len(str)), values)
         IN  IF key \in DOMAIN values /\ rest # None THEN Some(values[key] \o rest[1])
             ELSE None
    ELSE LET rest == render(Tail(str), values)
         IN  IF rest = None THEN None ELSE Some(<<Head(str)>> \o rest[1])

\* str::replace(from, to): the occurrences of `from`, from left to right and
\* not overlapping, are replaced by `to`
RECURSIVE Replace(_, _, _)
Replace(str, from, to) ==
    IF Len(str) < Len(from) THEN str
    ELSE IF SubSeq(str, 1, Len(from)) = from
    THEN to \o Replace(SubSeq(str, Len(from) + 1, Len(str)), from, to)
    ELSE <<Head(str)>> \o Replace(Tail(str), from, to)

Dash == <<"-">>
Underscore == <<"_">>
Contains(str, piece) == \E i \in 1..Len(str) : str[i] = piece

\* config.metric_templates: BinaryMetricRawDef {query, op, threshold} by name
MetricTemplates ==
    [t \in {"t1", "t2", "t3", "t4"} |->
        CASE t = "t1" -> [query |-> <<"$", "environment", ".", "$", "service", ".", "count">>,
                          op |-> "Lt", threshold |-> 1]
          [] t = "t2" -> [query |-> <<"stats", ".", "$", "service">>,
                          op |-> "Gt", threshold |-> 2]
          [] t = "t3" -> [query |-> <<"sum(", "$", "environment", ".", "$", "service", ")">>,
                          op |-> "Gt", threshold |-> 2]
          [] t = "t4" -> [query |-> <<"stats", ".", "count">>,
                          op |-> "Eq", threshold |-> 0]]

\* MetricEnvironmentDef {name, threshold: Option<f32>}
MetricEnv(n, t) == [name |-> n, threshold |-> t]
MetricEnvLists ==
    { << >>,
      <<MetricEnv(<<"prod">>, None)>>,
      <<MetricEnv(<<"prod">>, Some(5)), MetricEnv(<<"dev">>, None)>> }

\* FlagMetricDef {name, service, template: Option<MetricTemplateRef>, environments}
FlagMetricDef(n, svc, t, envs) ==
    [name |-> n, service |-> svc, template |-> t, environments |-> envs]

\* config.flag_metrics: one definition, two definitions of two services, or two
\* definitions of the same service and name
FlagMetricLists ==
    {<<FlagMetricDef(<<"m">>, <<"web">>, t, envs)>> :
        t \in {None} \cup {Some(n) : n \in DOMAIN MetricTemplates}, envs \in MetricEnvLists}
    \cup {<<FlagMetricDef(<<"m">>, <<"web">>, Some("t1"),
                          <<MetricEnv(<<"prod">>, Some(5)), MetricEnv(<<"dev">>, None)>>),
            FlagMetricDef(<<"n">>, <<"db">>, None, <<MetricEnv(<<"prod">>, None)>>)>>,
          <<FlagMetricDef(<<"m">>, <<"web">>, Some("t1"), <<MetricEnv(<<"prod">>, None)>>),
            FlagMetricDef(<<"m">>, <<"web">>, Some("t2"), <<MetricEnv(<<"dev">>, None)>>)>>}

\* Metric identifiers and expression texts of the health definitions
IdAB == <<"a", "-", "b">>
IdABC == <<"a", "-", "b", "-", "c">>
IdPlain == <<"ab">>

\* config.health_metrics: ServiceHealthDef {metrics, expressions} (service,
\* component_name and category are copied as they are), listed in the order in
\* which the HashMap is iterated
RawExpr(text, w) == [expression |-> text, weight |-> w]
HealthDefLists ==
    { << >>,
      <<[metrics |-> <<IdAB>>, expressions |-> <<RawExpr(IdAB, 1)>>]>>,
      <<[metrics |-> <<IdPlain, IdAB>>,
         expressions |-> <<RawExpr(IdPlain \o <<"|">> \o IdAB, 2), RawExpr(IdAB, 1)>>]>>,
      <<[metrics |-> <<IdAB, IdABC>>,
         expressions |-> <<RawExpr(IdAB \o <<"|">> \o IdABC, 1), RawExpr(IdABC, 3)>>]>>,
      <<[metrics |-> <<IdPlain>>, expressions |-> <<RawExpr(<<"!">> \o IdPlain, 1)>>],
        [metrics |-> <<IdABC, IdAB>>, expressions |-> <<RawExpr(IdABC, 2)>>]>> }

ConfigInit ==
    /\ c_config \in [flag_metrics : FlagMetricLists, health_metrics : HealthDefLists]
    /\ c_pc = "flag_metrics"
    /\ c_i = 1
    /\ flag_metrics = << >>
    /\ services = {}
    /\ health_metrics = << >>
    /\ c_order = << >>

ConfigIdle ==
    /\ c_config = [flag_metrics |-> << >>, health_metrics |-> << >>]
    /\ c_pc = "idle"
    /\ c_i = 0
    /\ flag_metrics = << >>
    /\ services = {}
    /\ health_metrics = << >>
    /\ c_order = << >>

\* format!("{}.{}", metric_def.service, metric_def.name)
MetricName(metric_def) == metric_def.service \o <<".">> \o metric_def.name

\* The FlagMetric of a definition for one of its environments; None when the
\* query does not render
CompiledMetric(metric_def, env) ==
    LET tmpl == MetricTemplates[metric_def.template[1]]
        query == render(tmpl.query,
                        (<<"service">> :> metric_def.service) @@ (<<"environment">> :> env.name))
    IN  IF query = None THEN None
        ELSE Some([query |-> query[1],
                   op |-> tmpl.op,
                   threshold |-> IF env.threshold # None THEN env.threshold[1]
                                 ELSE tmpl.threshold])

\* `for env in metric_def.environments.iter()`: each environment's FlagMetric is
\* inserted under its name, a later one of the same name replacing the earlier;
\* None when a query does not render (`.unwrap()` panics)
RECURSIVE InsertEnvironments(_, _, _)
InsertEnvironments(metric_def, envs, x) ==
    IF envs = << >> THEN Some(x)
    ELSE LET raw == CompiledMetric(metric_def, Head(envs))
         IN  IF raw = None THEN None
             ELSE InsertEnvironments(metric_def, Tail(envs),
                                     (Head(envs).name :> raw[1]) @@ x)

\* One pass of `for metric_def in self.config.flag_metrics.iter()`
CompileFlagMetric ==
    /\ c_pc = "flag_metrics"
    /\ c_i <= Len(c_config.flag_metrics)
    /\ LET metric_def == c_config.flag_metrics[c_i]
           x == InsertEnvironments(metric_def, metric_def.environments, << >>)
       IN  IF metric_def.template = None
           THEN /\ services' = services \cup {metric_def.service}
                /\ c_i' = c_i + 1
                /\ UNCHANGED <<flag_metrics, c_pc>>
           ELSE IF x = None
           THEN /\ c_pc' = "panicked"
                /\ flag_metrics' = (MetricName(metric_def) :> << >>) @@ flag_metrics
                /\ UNCHANGED <<services, c_i>>
           ELSE /\ flag_metrics' = (MetricName(metric_def) :> x[1]) @@ flag_metrics
                /\ services' = services \cup {metric_def.service}
                /\ c_i' = c_i + 1
                /\ UNCHANGED c_pc
    /\ UNCHANGED <<c_config, health_metrics, c_order>>

\* The flag metrics are exhausted: the loop over the health definitions starts
CompileFlagMetricsDone ==
    /\ c_pc = "flag_metrics"
    /\ c_i > Len(c_config.flag_metrics)
    /\ c_pc' = "health_metrics"
    /\ c_i' = 1
    /\ UNCHANGED <<c_config, flag_metrics, services, health_metrics, c_order>>

\* The keys of `replacements`: the listed metrics that contain "-"
ReplacementKeys(health_def) ==
    {health_def.metrics[i] : i \in {j \in 1..Len(health_def.metrics) :
                                      Contains(health_def.metrics[j], "-")}}

\* `for (k, v) in replacements.iter()`: the replacements applied to an
\* expression one after the other, in the order `keys`
RECURSIVE ApplyReplacements(_, _)
ApplyReplacements(expression, keys) ==
    IF keys = << >> THEN expression
    ELSE ApplyReplacements(Replace(expression, Head(keys), Replace(Head(keys), Dash, Underscore)),
                           Tail(keys))

\* `for expr in health_def.expressions.iter()`: the rewritten expression and the
\* weight are pushed in the order of the definition
CompiledExpressions(health_def, keys) ==
    [i \in 1..Len(health_def.expressions) |->
        [expression |-> ApplyReplacements(health_def.expressions[i].expression, keys),
         weight |-> health_def.expressions[i].weight]]

\* One pass of `for (metric_name, health_def) in self.config.health_metrics.iter()`.
\* `replacements` is a HashMap: it is iterated in an unspecified order, the same
\* one for every expression of the definition
CompileHealthMetric ==
    /\ c_pc = "health_metrics"
    /\ c_i <= Len(c_config.health_metrics)
    /\ LET health_def == c_config.health_metrics[c_i]
       IN  \E keys \in Orderings(ReplacementKeys(health_def)) :
             /\ health_metrics' =
                   Append(health_metrics,
                          [metrics |-> health_def.metrics,
                           expressions |-> CompiledExpressions(health_def, keys)])
             /\ c_order' = Append(c_order, keys)
    /\ c_i' = c_i + 1
    /\ UNCHANGED <<c_config, c_pc, flag_metrics, services>>

\* The health definitions are exhausted: process_config returns
CompileDone ==
    /\ c_pc = "health_metrics"
    /\ c_i > Len(c_config.health_metrics)
    /\ c_pc' = "done"
    /\ UNCHANGED <<c_config, c_i, flag_metrics, services, health_metrics, c_order>>

(***************************************************************************)
(* Specifications                                                          *)
(***************************************************************************)
Init == ReporterInit /\ SdIdle /\ FlagIdle /\ HealthIdle /\ ConfigIdle

Next ==
    \/ Start /\ UNCHANGED <<svars, fvars, hvars, cvars>>
    \/ BootFetchResp /\ UNCHANGED <<svars, fvars, hvars, cvars>>
    \/ BootSleepDone /\ UNCHANGED <<svars, fvars, hvars, cvars>>
    \/ HealthResp /\ UNCHANGED <<svars, fvars, hvars, cvars>>
    \/ RefreshResp /\ UNCHANGED <<svars, fvars, hvars, cvars>>
    \/ PostResp /\ UNCHANGED <<svars, fvars, hvars, cvars>>
    \/ NextPair /\ UNCHANGED <<svars, fvars, hvars, cvars>>
    \/ PollSleepDone /\ UNCHANGED <<svars, fvars, hvars, cvars>>
    \/ Signal /\ UNCHANGED <<svars, fvars, hvars, cvars>>
    \/ MainReturn /\ UNCHANGED <<svars, fvars, hvars, cvars>>

Spec == Init /\ [][Next]_vars

\* The reporter under the scheduling of the runtime: main, once its select! has
\* completed, runs on to its return
SpecLive == Init /\ [][Next]_vars /\ WF_vars(MainReturn /\ UNCHANGED <<svars, fvars, hvars, cvars>>)

InitSd == SdInit /\ ReporterIdle /\ FlagIdle /\ HealthIdle /\ ConfigIdle

NextSd ==
    \/ SdCollect /\ UNCHANGED <<rvars, fvars, hvars, cvars>>
    \/ SdFind /\ UNCHANGED <<rvars, fvars, hvars, cvars>>
    \/ SdFindAgain /\ UNCHANGED <<rvars, fvars, hvars, cvars>>

SpecSd == InitSd /\ [][NextSd]_vars

InitFlag == FlagInit /\ ReporterIdle /\ SdIdle /\ HealthIdle /\ ConfigIdle

NextFlag == FlagCall /\ UNCHANGED <<rvars, svars, hvars, cvars>>

SpecFlag == InitFlag /\ [][NextFlag]_vars

InitHealth == HealthInit /\ ReporterIdle /\ SdIdle /\ FlagIdle /\ ConfigIdle

NextHealth ==
    \/ HStart /\ UNCHANGED <<rvars, svars, fvars, cvars>>
    \/ HGraphiteResp /\ UNCHANGED <<rvars, svars, fvars, cvars>>
    \/ HSeries /\ UNCHANGED <<rvars, svars, fvars, cvars>>
    \/ HDatapoint /\ UNCHANGED <<rvars, svars, fvars, cvars>>
    \/ HEndSeries /\ UNCHANGED <<rvars, svars, fvars, cvars>>
    \/ HEndData /\ UNCHANGED <<rvars, svars, fvars, cvars>>
    \/ HEvaluate /\ UNCHANGED <<rvars, svars, fvars, cvars>>
    \/ HandlerReject /\ UNCHANGED <<rvars, svars, fvars, cvars>>
    \/ HandlerUnknown /\ UNCHANGED <<rvars, svars, fvars, cvars>>
    \/ HandlerRespond /\ UNCHANGED <<rvars, svars, fvars, cvars>>

SpecHealth == InitHealth /\ [][NextHealth]_vars

InitConfig == ConfigInit /\ ReporterIdle /\ SdIdle /\ FlagIdle /\ HealthIdle

NextConfig ==
    \/ CompileFlagMetric /\ UNCHANGED <<rvars, svars, fvars, hvars>>
    \/ CompileFlagMetricsDone /\ UNCHANGED <<rvars, svars, fvars, hvars>>
    \/ CompileHealthMetric /\ UNCHANGED <<rvars, svars, fvars, hvars>>
    \/ CompileDone /\ UNCHANGED <<rvars, svars, fvars, hvars>>

SpecConfig == InitConfig /\ [][NextConfig]_vars

(***************************************************************************)
(* Properties of the reporter (Spec)                                       *)
(***************************************************************************)
\* The metrics of the health response of the current pair, once it has arrived
PairAnswered == pair.resp # None /\ pair.resp[1].kind = "ok"
PairMetrics == pair.resp[1].metrics
PairTarget == components[pair.env][pair.svc]

\* C3: the reporter's decision depends only on the last point of the response:
\* when the metrics are empty or the last point has weight 0 there is no lookup,
\* no refresh and no POST for the pair, whatever the earlier points are; and a
\* lookup, refresh or POST is only ever made for a last point of weight > 0.
C3_OnlyLastPointDecides ==
    /\ (PairAnswered /\ (PairMetrics = << >> \/ PairMetrics[Len(PairMetrics)].weight = 0))
         => (pair.lookups = 0 /\ pair.refreshes = 0 /\ pair.posts = 0 /\ pc = "pair_done")
    /\ (pair.lookups > 0 \/ pair.refreshes > 0 \/ pair.posts > 0 \/ pc \in {"refresh", "post"})
         => (PairAnswered /\ PairMetrics # << >>
             /\ PairMetrics[Len(PairMetrics)].weight > 0)

\* An earlier point is degraded, the last one is healthy, the pair is done
\* without any dashboard interaction
C3_Witness ==
    /\ pc = "pair_done"
    /\ PairAnswered
    /\ Len(PairMetrics) = 2
    /\ PairMetrics[1].weight > 0
    /\ PairMetrics[2].weight = 0
    /\ pair.svc \in DOMAIN components[pair.env]
    /\ pair.posts = 0

\* C4: a miss of the lookup is followed by exactly one GET /v2/components for
\* the pair; a successful refresh replaces the cache by the one built from the
\* answer and the lookup is retried once; after a second miss or a failed
\* refresh the pair is done with no POST and no further refresh.
C4_OneRefreshThenRetryOnce ==
    /\ pair.refreshes <= 1
    /\ pair.lookups <= 2
    /\ (pair.misses >= 1) => (pair.refreshes = 1)
    /\ (pair.refreshes = 1) => (pair.misses >= 1)
    /\ (pc = "refresh") => (pair.lookups = 1 /\ pair.misses = 1 /\ pair.posts = 0)
    /\ (pair.lookups = 2) =>
          /\ pair.fetched # None
          /\ ~pair.refresh_failed
          /\ component_cache = Some(CollectCache(pair.fetched[1], {}))
    /\ (pair.refresh_failed) => (pair.lookups = 1 /\ pair.posts = 0 /\ pc \in {"pair_done", "abandoned"})
    /\ (pair.misses = 2) => (pair.posts = 0 /\ pc \in {"pair_done", "abandoned"})
    /\ (pair.misses = 1 /\ pair.posts = 1) =>
          /\ pair.lookups = 2
          /\ \E e \in CacheOf(component_cache) :
                e.id = pair.post_id[1] /\ e.key[1] = PairTarget.name

\* The retried lookup missed too: the pair is done without a POST
C4_Witness ==
    /\ pc = "pair_done"
    /\ pair.misses = 2
    /\ pair.refreshes = 1
    /\ pair.posts = 0

\* C5 as stated: at most one refresh in one pass over all pairs
C5_AtMostOneRefreshPerIteration == iter_refreshes <= 1

\* C5 amended: in one pass there is one refresh for each pair whose lookup
\* missed, and never more than one for a pair
C5_OneRefreshPerMissingPair ==
    /\ iter_refreshes = iter_misses
    /\ pair.refreshes <= 1
    /\ iter_refreshes <= NumEnvs * NumSvcs

\* Two pairs of one pass missed and two refreshes were issued
C5_Witness == iter_refreshes = 2 /\ iter_misses = 2

\* C6: the bootstrap issues at most 3 GET /v2/components, none after the first
\* success, and sleeps 60 s after every failed attempt but the third, before
\* the next attempt.
C6_BootstrapAtMostThreeAttempts ==
    /\ boot_fetches <= 3
    /\ boot_failures <= boot_fetches
    /\ (component_cache # None) => (boot_fetches = boot_failures + 1)
    /\ boot_sleeps = (IF boot_failures < 3 THEN boot_failures ELSE 2)
    /\ (pc = "boot_fetch") => (boot_fetches = boot_failures + 1 /\ slept = 60 * boot_failures)
    /\ (pc = "boot_sleep") => (boot_fetches = boot_failures /\ slept = 60 * (boot_failures - 1))

\* The third attempt succeeded, after two failures and two sleeps
C6_Witness ==
    /\ boot_fetches = 3
    /\ boot_failures = 2
    /\ slept = 120
    /\ component_cache # None

\* C7: no health query and no incident POST before a bootstrap fetch has
\* succeeded; when all three fail metric_watcher returns without any.
C7_NoPollingWithoutCache ==
    /\ (ever_queried \/ ever_posted) => (component_cache # None /\ boot_failures < 3)
    /\ (boot_failures = 3) => (pc = "returned" /\ component_cache = None)
    /\ (pc = "returned") => (~ever_queried /\ ~ever_posted /\ boot_failures = 3)

\* All three bootstrap fetches failed and metric_watcher has returned
C7_Witness == pc = "returned" /\ boot_failures = 3 /\ ~ever_queried

\* C8 as stated: exhausted bootstrap ends the process with a non-zero status,
\* a signal ends it with status 0
C8_ExitStatus ==
    /\ (boot_failures = 3) => (exit_status # None /\ exit_status[1] # 0)
    /\ (pc = "abandoned" /\ exit_status # None) => (exit_status = Some(0))

\* C9 as stated: a health definition without component_name is skipped: no
\* POST for it, and the control loop goes on whatever weight is reported
C9_NoComponentNameIsSkipped ==
    (pair.svc >= 1 /\ config.health_metrics[pair.svc].component_name = None)
        => (pair.posts = 0 /\ pc # "panicked" /\ (exit_status = None \/ pc = "abandoned"))

\* days_from_civil: the day number of a civil date, the inverse of the encoding
DaysFromCivil(y0, m, d) ==
    LET y == IF m <= 2 THEN y0 - 1 ELSE y0
        era == y \div 400
        yoe == y - era * 400
        doy == ((153 * (IF m > 2 THEN m - 3 ELSE m + 9) + 2) \div 5) + d - 1
        doe == yoe * 365 + (yoe \div 4) - (yoe \div 100) + doy
    IN  era * 146097 + doe - 719468

\* The second since the epoch that an RFC3339 date in UTC denotes
ParseRfc3339(date) ==
    DaysFromCivil(date.year, date.month, date.day) * 86400
        + date.hour * 3600 + date.minute * 60 + date.second

\* C12: the incident posted for a pair has start_date one second before the
\* timestamp of the last health point, in UTC, impact equal to that point's
\* weight, which is > 0, exactly the resolved component id as its components,
\* system = true and type = "incident".
C12_IncidentData ==
    (pair.posts > 0) =>
        LET data == pair.post_data[1]
            last == PairMetrics[Len(PairMetrics)]
        IN  /\ pair.posts = 1
            /\ data.start_date.offset = "+00:00"
            /\ ParseRfc3339(data.start_date) = last.timestamp - 1
            /\ data.start_date.month \in 1..12 /\ data.start_date.day \in 1..31
            /\ data.start_date.hour \in 0..23 /\ data.start_date.minute \in 0..59
            /\ data.start_date.second \in 0..59
            /\ data.impact = last.weight
            /\ data.impact > 0
            /\ data.components = <<pair.post_id[1]>>
            /\ pair.post_id = component_id
            /\ data.system = TRUE
            /\ data.type = "incident"

\* An incident for the point of 2024-03-01T00:00:00Z is posted with the start
\* date 2024-02-29T23:59:59+00:00
C12_Witness ==
    /\ pc = "post"
    /\ PairMetrics[Len(PairMetrics)].timestamp = 1709251200
    /\ pair.post_data[1].start_date =
          [year |-> 2024, month |-> 2, day |-> 29, hour |-> 23, minute |-> 59,
           second |-> 59, offset |-> "+00:00"]
    /\ pair.post_data[1].impact = 2

\* The health query of the current pair failed: transport error, 4xx status or
\* a body that is no health response
PairFailed ==
    pair.resp # None /\ pair.resp[1].kind \in {"transport", "client_error", "unparsable"}

\* C18: at most one incident POST is issued for a pair in a pass; the answer to
\* the POST, success or failure, ends the pair without another POST and without
\* ending the process, and after a pair the loop goes on to the next health
\* query or to the sleep that ends the pass.
C18_OnePostNoRetry ==
    /\ [](/\ pair.posts <= 1
          /\ (pair.post_ok = Some(FALSE))
                => (pc = "pair_done" /\ pair.posts = 1 /\ exit_status = None))
    /\ [][/\ (pc = "post" /\ pc' # "abandoned")
                => (/\ pc' = "pair_done"
                    /\ pair'.posts = pair.posts
                    /\ pair'.post_ok # None
                    /\ exit_status' = exit_status)
          /\ (pc = "pair_done" /\ pair.posts = 1)
                => (pc' \in {"health", "poll_sleep"} /\ exit_status' = None)]_vars

\* The POST of a pair failed and the pair is not the last one of the pass
C18_Witness ==
    /\ pc = "pair_done"
    /\ pair.post_ok = Some(FALSE)
    /\ pair.posts = 1
    /\ ~LastPair

\* C19: after a failed health query the pair is done with no lookup, no refresh
\* and no POST, the component cache is the one it was, the process goes on, and
\* the loop continues with the next health query or the sleep.
C19_FailedHealthQuerySkipsPair ==
    /\ [](PairFailed => (/\ pair.lookups = 0 /\ pair.refreshes = 0 /\ pair.posts = 0
                         /\ pc = "pair_done"
                         /\ exit_status = None))
    /\ [][/\ (pc = "health" /\ pair'.resp # None /\ pair'.resp[1].kind # "ok")
                => (component_cache' = component_cache /\ pc' = "pair_done")
          /\ (pc = "pair_done" /\ PairFailed)
                => (/\ pc' \in {"health", "poll_sleep"}
                    /\ component_cache' = component_cache
                    /\ exit_status' = None)]_vars

\* A 4xx answer whose body would report a degraded service was skipped, for a
\* pair that has a target component and is not the last one of the pass
C19_Witness ==
    /\ pc = "pair_done"
    /\ pair.resp = Some([kind |-> "client_error", metrics |-> <<Point(0, 1)>>])
    /\ pair.svc \in DOMAIN components[pair.env]
    /\ component_cache # None /\ component_cache[1] # {}
    /\ ~LastPair

\* A lookup of the current pair returned a component id
PairResolved == pair.lookups > pair.misses

\* C20: in every pass a pair whose last point has weight > 0 and whose component
\* resolves gets its POST, whatever was posted before; nothing that was posted
\* is consulted.
C20_NoDeduplication ==
    /\ (pc \in {"post", "pair_done"} /\ PairResolved) => (pair.posts = 1)
    /\ (pair.posts = 1) => (PairResolved /\ PairMetrics[Len(PairMetrics)].weight > 0)
    /\ (pc = "pair_done" /\ PairAnswered /\ PairMetrics # << >>
            /\ PairMetrics[Len(PairMetrics)].weight > 0)
          => (pair.lookups >= 1)

\* In the second pass the incident that was posted first is posted again
C20_Witness ==
    /\ pc = "post"
    /\ iteration = 2
    /\ pair.post_dup
    /\ first_posted = pair.post_data

\* What metric_watcher has done and holds: every variable of the reporter but
\* the suspension point and the exit status
WatcherState ==
    <<config, components, attempt, component_cache, env_i, svc_i, iteration, component_id,
      pair, iter_refreshes, iter_misses, boot_fetches, boot_failures, boot_sleeps, slept,
      ever_queried, ever_posted, first_posted>>

AttrSet(as) == {as[i] : i \in 1..Len(as)}
Reorderings(as) == {q \in AttrSeqs : Len(q) = Len(as) /\ \A a \in ComponentAttribute :
                        Cardinality({i \in 1..Len(q) : q[i] = a})
                        = Cardinality({i \in 1..Len(as) : as[i] = a})}

\* C10: find_component_id returns Some(id) only for an entry of the cache with
\* that id, the target's name and a superset of the target's attributes, and
\* None exactly when there is no such entry; the outcome is the same for every
\* order of the target's attributes and of a collected component's attributes,
\* and a target without attributes matches every entry of its name.
C10_SubsetMatching ==
    (sd_pc = "found") =>
        LET t == sd_target[1]
            r == sd_result[1]
            fits(e) == e.key[1] = t.name /\ AttrSet(t.attributes) \subseteq AttrSet(e.key[2])
        IN  /\ (r # None) => (\E e \in sd_cache : e.id = r[1] /\ fits(e))
            /\ (r = None) <=> ~(\E e \in sd_cache : fits(e))
            /\ \A q \in Reorderings(t.attributes) :
                  (None \in find_component_id(sd_cache, [t EXCEPT !.attributes = q]))
                      <=> (r = None)
            /\ (sd_last # None) =>
                  \A q \in Reorderings(sd_last[1].attributes) :
                      /\ \E e \in sd_cache :
                            /\ e.id = sd_last[1].id
                            /\ e.key[1] = sd_last[1].name
                            /\ AttrSet(e.key[2]) = AttrSet(q)
                      /\ CollectCache(<<[sd_last[1] EXCEPT !.attributes = q]>>, sd_cache)
                            = sd_cache
            /\ (t.attributes = << >>) =>
                  ((r = None) <=> ~(\E e \in sd_cache : e.key[1] = t.name))

\* A target with two attributes in the opposite order of the entry's key is found
C10_Witness ==
    /\ sd_pc = "found"
    /\ sd_result # None /\ sd_result[1] # None
    /\ Len(sd_target[1].attributes) = 2
    /\ AttrLess(sd_target[1].attributes[2], sd_target[1].attributes[1])
    /\ sd_count = 2

\* C11 as stated: two lookups of the same target in caches of the same contents
\* return the same component id
C11_SameContentsSameId ==
    (sd_pc = "found_again") => (sd_again = sd_result)

(***************************************************************************)
(* Properties of the flag engine (SpecFlag)                                *)
(***************************************************************************)
\* C2: get_metric_flag_state is false for None and, for Some(v), is v < t for
\* Lt, v > t for Gt and v == t for Eq; at v == t Lt and Gt are false, Eq is true.
C2_StrictComparison ==
    (flag_result # None) =>
        LET r == flag_result[1]
            t == flag_metric.threshold
        IN  /\ (flag_value = None) => (r = FALSE)
            /\ (flag_value # None /\ flag_metric.op = "Lt") => (r <=> flag_value[1] < t)
            /\ (flag_value # None /\ flag_metric.op = "Gt") => (r <=> flag_value[1] > t)
            /\ (flag_value # None /\ flag_metric.op = "Eq") => (r <=> flag_value[1] = t)
            /\ (flag_value = Some(t)) => (r <=> flag_metric.op = "Eq")

\* A sample equal to the threshold under Lt has been flagged
C2_Witness ==
    /\ flag_result # None
    /\ flag_value = Some(flag_metric.threshold)
    /\ flag_metric.op = "Lt"

(***************************************************************************)
(* Properties of the health evaluator (SpecHealth)                         *)
(***************************************************************************)
\* The flag of the last non-null sample of a metric at a timestamp, false when
\* there is none
SampleFlag(m, ts) ==
    /\ h_samples[ts][m] # None
    /\ LET v == h_samples[ts][m][1]
           f == h_state.flag_metrics[m][h_query.environment]
       IN  CASE f.op = "Lt" -> v < f.threshold
             [] f.op = "Gt" -> v > f.threshold
             [] f.op = "Eq" -> v = f.threshold

\* The context that binds every metric of the service to that flag
SampleContext(ts) ==
    [n \in {Underscored(HmConfig.metrics[i]) : i \in 1..Len(HmConfig.metrics)} |->
        LET i == CHOOSE j \in 1..Len(HmConfig.metrics) : Underscored(HmConfig.metrics[j]) = n
        IN  SampleFlag(HmConfig.metrics[i], ts)]

\* The weights of the expressions that are true under a context
TrueWeights(context) ==
    {HmConfig.expressions[i].weight : i \in
        {j \in 1..Len(HmConfig.expressions) :
            eval_boolean_with_context(HmConfig.expressions[j].expression, context) = Some(TRUE)}}

SetMax(S) == CHOOSE x \in S : \A y \in S : y <= x

\* C1 as stated: every emitted weight is the maximum weight of the expressions
\* that are true at the timestamp, and 0 when none is true
C1_WeightIsMaxOfTrue ==
    \A i \in 1..Len(result) :
        LET tw == TrueWeights(SampleContext(result[i][1]))
        IN  result[i][2] = (IF tw = {} THEN 0 ELSE SetMax(tw))

\* The call has returned, and the value it returned
Returned == h_ret # None
ReturnedOk == h_ret # None /\ h_ret[1].tag = "Ok"
ReturnedErr(e) == h_ret # None /\ h_ret[1].tag = "Err" /\ h_ret[1].error = e

\* C13: the points collected, and the points returned, are strictly ascending
\* by timestamp, whatever the order and the repetitions of the datapoints in the
\* Graphite response; no timestamp appears twice.
C13_StrictlyAscending ==
    /\ \A i, j \in 1..Len(result) : (i < j) => (result[i][1] < result[j][1])
    /\ ReturnedOk =>
          /\ h_ret[1].data = result
          /\ Cardinality({result[i][1] : i \in 1..Len(result)}) = Len(result)

\* The response delivered timestamp 2 before timestamp 1, in two series of two
\* datapoints each, and two points were returned
C13_Witness ==
    /\ ReturnedOk
    /\ h_first_ts = Some(2)
    /\ h_series = 2
    /\ h_points = 2
    /\ Len(h_ret[1].data) = 2

\* The timestamps at which a metric of the service's list has a non-null sample
ServiceSampleTimestamps ==
    {ts \in Timestamps :
        \E k \in 1..Len(HmConfig.metrics) : h_samples[ts][HmConfig.metrics[k]] # None}

\* C14 as stated: the returned points are exactly the timestamps at which a
\* metric of the service's list has a non-null sample, one point each
C14_OnePointPerSampledTimestamp ==
    ReturnedOk =>
        /\ {h_ret[1].data[i][1] : i \in 1..Len(h_ret[1].data)} = ServiceSampleTimestamps
        /\ Cardinality(ServiceSampleTimestamps) = Len(h_ret[1].data)

\* A metric of the service's list without a FlagMetric for the environment
UnboundMetric ==
    \E k \in 1..Len(HmConfig.metrics) :
        \/ HmConfig.metrics[k] \notin DOMAIN h_state.flag_metrics
        \/ h_query.environment \notin DOMAIN h_state.flag_metrics[HmConfig.metrics[k]]

\* C15 as stated: for a known service with a listed metric that has no binding
\* for the environment the call returns EnvNotSupported and sends no request
C15_EnvNotSupported ==
    (/\ h_pc \notin {"idle", "start"}
     /\ h_query.service \in DOMAIN h_state.health_metrics
     /\ UnboundMetric)
        => (ReturnedErr("EnvNotSupported") /\ h_requests = 0)

\* C16: for a service without a health definition the call returns
\* ServiceNotSupported at once, no request to Graphite is sent, and the error is
\* returned for no other service.
C16_ServiceNotSupported ==
    /\ (h_pc \notin {"idle", "start"} /\ h_query.service \notin DOMAIN h_state.health_metrics)
          => (ReturnedErr("ServiceNotSupported") /\ h_pc = "done" /\ h_requests = 0)
    /\ ReturnedErr("ServiceNotSupported")
          => (h_query.service \notin DOMAIN h_state.health_metrics /\ h_requests = 0)

\* The query for the undefined service "u" has been answered
C16_Witness ==
    /\ h_query.service = "u"
    /\ ReturnedErr("ServiceNotSupported")
    /\ h_requests = 0

\* Expression i of the service is evaluated under the context and raises an
\* error: its weight exceeds the weight of every earlier expression that is true
RaisesAt(context, i) ==
    LET es == HmConfig.expressions
    IN  /\ eval_boolean_with_context(es[i].expression, context) = None
        /\ AsU8(es[i].weight) > 0
        /\ \A j \in 1..(i - 1) :
              (eval_boolean_with_context(es[j].expression, context) = Some(TRUE))
                  => (AsU8(es[j].weight) < AsU8(es[i].weight))

\* The evaluation of the timestamp raises an error
Raises(ts) ==
    LET context == [n \in {Underscored(HmConfig.metrics[i]) : i \in 1..Len(HmConfig.metrics)} |->
                      \E i \in 1..Len(HmConfig.metrics) :
                          /\ Underscored(HmConfig.metrics[i]) = n
                          /\ HmConfig.metrics[i] \in DOMAIN metrics_map[ts]
                          /\ metrics_map[ts][HmConfig.metrics[i]]]
    IN  \E i \in 1..Len(HmConfig.expressions) : RaisesAt(context, i)

\* C17: when the evaluation of a timestamp raises an error the call returns
\* Err(ExpressionError), a value without points, also when earlier timestamps
\* were evaluated; no point is collected for a timestamp that raises, and the
\* error is returned for no other reason.
C17_ExpressionErrorFailsRequest ==
    /\ (h_pc = "evaluate") => (\A i \in 1..Len(result) : ~Raises(result[i][1]))
    /\ ReturnedOk => (\A ts \in DOMAIN metrics_map : ~Raises(ts))
    /\ (h_pc = "done" /\ h_requests = 1 /\ ~ReturnedErr("GraphiteError")
            /\ \E ts \in DOMAIN metrics_map : Raises(ts))
          => ReturnedErr("ExpressionError")
    /\ ReturnedErr("ExpressionError")
          => (h_pc = "done" /\ \E ts \in DOMAIN metrics_map : Raises(ts))

\* Timestamp 1 was evaluated to a point, timestamp 2 raised the error
C17_Witness ==
    /\ ReturnedErr("ExpressionError")
    /\ Len(result) = 1
    /\ Raises(2)

\* The answer of Graphite is a failure as get_graphite_data names them: no
\* response, a 4xx status, or a body that is no array of series
GraphiteFailed ==
    /\ h_resp # None
    /\ \/ h_resp[1].kind = "transport"
       \/ h_resp[1].status \in 400..499
       \/ ~h_resp[1].decodable

\* C25: a call sends at most one GET /render, exactly one once the two checks
\* have passed, and none after the answer; a transport error, a 4xx status or
\* an undecodable body makes the call return Err(GraphiteError) with no series
\* consumed and no point collected, and GraphiteError is returned for no call
\* that did not send its request.
C25_OneGetNoRetry ==
    /\ h_requests <= 1
    /\ (h_pc \in {"graphite", "collect", "evaluate", "panicked"}) => (h_requests = 1)
    /\ (h_resp # None) => (h_requests = 1)
    /\ GraphiteFailed
          => (/\ ReturnedErr("GraphiteError")
              /\ h_pc = "done"
              /\ h_series = 0
              /\ metrics_map = EmptyMap
              /\ result = << >>)
    /\ ReturnedErr("GraphiteError") => (h_requests = 1 /\ h_resp # None)

\* A 200 answer whose body is no array of series has failed the call
C25_Witness ==
    /\ h_resp = Some([kind |-> "http", status |-> 200, decodable |-> FALSE])
    /\ ReturnedErr("GraphiteError")
    /\ h_requests = 1

\* C29 as stated: after an answer with a status outside 2xx the call returns
\* Err(GraphiteError) and produces no point, whatever the body is
C29_OnlySuccessStatusGivesPoints ==
    (h_resp # None /\ h_resp[1].kind = "http" /\ h_resp[1].status \notin 200..299)
        => (result = << >> /\ (Returned => ReturnedErr("GraphiteError")))

\* C28 as stated: the call never aborts; whatever series the answer of Graphite
\* holds, the call ends by returning Ok or one of the errors
C28_NeverAborts ==
    /\ h_pc # "panicked"
    /\ (h_pc = "done") => (ReturnedOk \/ \E e \in {"ServiceNotSupported", "EnvNotSupported",
                                                   "ExpressionError", "GraphiteError"} :
                                           ReturnedErr(e))

(***************************************************************************)
(* Properties of the health endpoint (SpecHealth)                          *)
(***************************************************************************)
\* C22 as stated: a request whose query deserializes is answered, and with no
\* status but these: 409 and a message for an unknown service and for
\* ServiceNotSupported and EnvNotSupported, 500 and a message for GraphiteError
\* and ExpressionError, 200 with name, service_category, environment and
\* metrics when the evaluator returned its points
C22_StatusByOutcome ==
    /\ (h_http # None /\ Deserializes(h_query)) =>
          LET status == h_http[1].status
              body == h_http[1].body
          IN  /\ status \in {200, 409, 500}
              /\ (status = 409) <=>
                    \/ h_query.service \notin DOMAIN h_state.health_metrics
                    \/ ReturnedErr("ServiceNotSupported")
                    \/ ReturnedErr("EnvNotSupported")
              /\ (status = 500) <=>
                    (ReturnedErr("GraphiteError") \/ ReturnedErr("ExpressionError"))
              /\ (status = 200) <=> ReturnedOk
              /\ (status \in {409, 500}) => (DOMAIN body = {"message"})
              /\ (status = 200) =>
                    body = [name |-> h_query.service,
                            service_category |-> HmConfig.category,
                            environment |-> h_query.environment,
                            metrics |-> h_ret[1].data]
    /\ (h_pc = "panicked") => (h_http # None)

(***************************************************************************)
(* Properties of the configuration compiler (SpecConfig)                   *)
(***************************************************************************)
\* The loop over the flag metrics has come to definition k: it has compiled
\* it, or it has stopped in it
ReachedDef(k) ==
    \/ c_pc \in {"health_metrics", "done"}
    \/ c_pc = "flag_metrics" /\ k < c_i
    \/ c_pc = "panicked" /\ k <= c_i

\* No "$service" and no "$environment" is left in a query
NoTokenLeft(query) ==
    \A i \in 1..(Len(query) - 1) :
        ~(query[i] = "$" /\ query[i + 1] \in {"service", "environment"})

\* C23 as stated: for every flag-metric definition f with a template that
\* process_config has come to, and every environment e listed in f, there is a
\* FlagMetric under "{f.service}.{f.name}" and e.name with the template's op,
\* with e.threshold when given and the template's threshold otherwise, and
\* with the template's query in which f.service stands for $service and e.name
\* for $environment and no such token is left; f.service is in the service set
C23_FlagMetricsRegistered ==
    \A k \in 1..Len(c_config.flag_metrics) :
        LET f == c_config.flag_metrics[k]
        IN  (ReachedDef(k) /\ f.template # None) =>
                LET tmpl == MetricTemplates[f.template[1]]
                    id == f.service \o <<".">> \o f.name
                IN  /\ id \in DOMAIN flag_metrics
                    /\ (c_pc # "panicked") => (f.service \in services)
                    /\ \A j \in 1..Len(f.environments) :
                          LET e == f.environments[j]
                          IN  /\ e.name \in DOMAIN flag_metrics[id]
                              /\ flag_metrics[id][e.name].op = tmpl.op
                              /\ flag_metrics[id][e.name].threshold =
                                    (IF e.threshold # None THEN e.threshold[1]
                                     ELSE tmpl.threshold)
                              /\ flag_metrics[id][e.name].query =
                                    Replace(Replace(tmpl.query, <<"$", "service">>, f.service),
                                            <<"$", "environment">>, e.name)
                              /\ NoTokenLeft(flag_metrics[id][e.name].query)

\* The pieces that separate the identifiers of an expression
IsOperator(piece) == piece \in {"|", "!"}

\* An identifier as the claim wants it rewritten: a listed metric that contains
\* "-" becomes the same identifier with "_" for every "-"
RewrittenId(id, metrics) ==
    IF (\E i \in 1..Len(metrics) : metrics[i] = id) /\ Contains(id, "-")
    THEN Replace(id, Dash, Underscore)
    ELSE id

\* An expression with every identifier rewritten
RECURSIVE RewrittenExpr(_, _, _)
RewrittenExpr(str, id, metrics) ==
    IF str = << >> THEN RewrittenId(id, metrics)
    ELSE IF IsOperator(Head(str))
    THEN RewrittenId(id, metrics) \o <<Head(str)>> \o RewrittenExpr(Tail(str), << >>, metrics)
    ELSE RewrittenExpr(Tail(str), Append(id, Head(str)), metrics)

\* C24 as stated: in every compiled health definition the metric list is the
\* configured one, the expressions are as many, in the same order and with the
\* same weights, and in each expression every occurrence of a listed metric
\* identifier that contains "-" is rewritten with "_", also when one listed
\* identifier is a prefix of another
C24_DashesRewritten ==
    \A k \in 1..Len(health_metrics) :
        LET raw == c_config.health_metrics[k]
            compiled == health_metrics[k]
        IN  /\ compiled.metrics = raw.metrics
            /\ Len(compiled.expressions) = Len(raw.expressions)
            /\ \A i \in 1..Len(raw.expressions) :
                  /\ compiled.expressions[i].weight = raw.expressions[i].weight
                  /\ compiled.expressions[i].expression =
                        RewrittenExpr(raw.expressions[i].expression, << >>, raw.metrics)

(***************************************************************************)
(* Properties of the health evaluator, continued (SpecHealth)              *)
(***************************************************************************)
\* Expression i of the service raises an error when it is evaluated (an
\* identifier of it is bound by no context of the service)
ErrorExpression(i) ==
    eval_boolean_with_context(HmConfig.expressions[i].expression,
                              BuildContext(HmConfig.metrics, << >>, EmptyContext)) = None

\* The call went through the Graphite request and has returned
Evaluated ==
    /\ Returned
    /\ h_query.service \in DOMAIN h_state.health_metrics
    /\ h_requests = 1
    /\ ~ReturnedErr("GraphiteError")

\* C26 as stated: for a service with an expression that raises an error, every
\* call whose response holds a non-null sample for the service returns
\* ExpressionError
C26_MisconfiguredIsFatal ==
    (/\ Evaluated
     /\ \E i \in 1..Len(HmConfig.expressions) : ErrorExpression(i)
     /\ ServiceSampleTimestamps # {})
        => ReturnedErr("ExpressionError")

\* The highest weight, as u8, of the expressions before expression i that are
\* true at the timestamp; 0 when there is none
BestBefore(ts, i) ==
    LET ws == {AsU8(HmConfig.expressions[j].weight) : j \in
                  {k \in 1..(i - 1) :
                      eval_boolean_with_context(HmConfig.expressions[k].expression,
                                                SampleContext(ts)) = Some(TRUE)}}
    IN  IF ws = {} THEN 0 ELSE SetMax(ws)

\* At the timestamp an expression that raises an error is not skipped: its
\* weight is above the weight of every true expression declared before it
ErrorReached(ts) ==
    \E i \in 1..Len(HmConfig.expressions) :
        /\ ErrorExpression(i)
        /\ AsU8(HmConfig.expressions[i].weight) > BestBefore(ts, i)

\* C26 amended: a call that has evaluated returns ExpressionError exactly when
\* at some timestamp with a sample an expression that raises an error is not
\* skipped; when such an expression is skipped at every timestamp, because an
\* expression declared before it is true there with at least its weight, the
\* call returns a point for every timestamp.
C26_FatalUnlessSkipped ==
    Evaluated =>
        /\ ReturnedErr("ExpressionError") <=> (\E ts \in DOMAIN metrics_map : ErrorReached(ts))
        /\ ReturnedOk => (Len(h_ret[1].data) = Cardinality(DOMAIN metrics_map))

\* The service has an expression that raises an error, and the call returned a
\* point for a timestamp at which that expression was skipped
C26_Witness ==
    /\ ReturnedOk
    /\ h_query.service \in DOMAIN h_state.health_metrics
    /\ \E i \in 1..Len(HmConfig.expressions) : ErrorExpression(i)
    /\ Len(h_ret[1].data) = 2
    /\ h_ret[1].data[1][2] = 3

(***************************************************************************)
(* Properties of the reporter, continued (Spec)                            *)
(***************************************************************************)
\* The step is the answer to a refresh fetch that succeeded: the refresh was
\* sent after the pair's lookup missed, and the step records the fetched list
RefreshSucceeded ==
    /\ pc = "refresh"
    /\ pair.misses >= 1
    /\ pair.fetched = None
    /\ pair'.fetched # None

\* C27: the cache of the polling loop changes only in the step in which a
\* refresh fetch sent after a lookup miss succeeds, and it is then the cache
\* built from the fetched list alone; a lookup hit, a last point of weight 0, a
\* failed health query, a failed refresh fetch and the answer to an incident
\* POST leave it as it is.
C27_CacheChangesOnlyOnRefresh ==
    [][/\ (component_cache # None /\ component_cache' # component_cache) => RefreshSucceeded
       /\ RefreshSucceeded =>
              component_cache' = Some(build_component_id_cache(pair'.fetched[1]))
       /\ (pc = "health" \/ pc = "post") => (component_cache' = component_cache)
       /\ (pc = "refresh" /\ pair'.refresh_failed) => (component_cache' = component_cache)]_vars

\* A refresh after a miss succeeded and the cache it built lacks an entry of
\* the cache held before: the earlier pair of the pass was posted with an id
\* the cache no longer holds
C27_Witness ==
    /\ pair.fetched # None
    /\ pair.misses >= 1
    /\ component_cache = Some(build_component_id_cache(pair.fetched[1]))
    /\ first_posted # None
    /\ \A e \in CacheOf(component_cache) : e.id # first_posted[1].components[1]

(***************************************************************************)
(* Properties of the health evaluator: the weight of a point (SpecHealth)  *)
(***************************************************************************)
\* C30 as stated: the weight of an emitted point is the configured weight of an
\* expression that is true at the timestamp, carried as configured (0 when no
\* expression wins), and no true expression has a configured weight above it
C30_WeightCarriedUnchanged ==
    \A i \in 1..Len(result) :
        LET tw == TrueWeights(SampleContext(result[i][1]))
        IN  /\ result[i][2] \in tw \cup {0}
            /\ \A w \in tw : w <= result[i][2]
====
